---- MODULE Spec2Model ----
(***************************************************************************)
(* State-machine model of the DB/XDB archive reading core of               *)
(* stalker-tools: SequensorReader (cursor reader), XRReader (archive       *)
(* reader), LzHuf (adaptive codec) and XRScrambler (stream cipher).        *)
(*                                                                         *)
(* Byte buffers are sequences over 0..255; Python's 0-based position p     *)
(* addresses element p + 1.  A Python int read from a 32-bit field is the  *)
(* record [b31, low]: bit 31 and the low 31 bits, so that every 32-bit     *)
(* value is representable.  A raised exception is its class name; None is  *)
(* the outcome of a call that raised nothing.                              *)
(***************************************************************************)
EXTENDS Integers, Sequences, FiniteSets, TLC

VARIABLES
    sr,        \* cursor spec: the SequensorReader, [buff, pos]
    last,      \* cursor spec: the last call, [op, arg, before, err, ret]
    skipped,   \* cursor spec: whether skip() has been called on sr
    xr,        \* XRReader: [buff, pos, version, header]: self.sr.buff, self.sr.pos,
               \*   self.version, self._header_chunk_sr (<<>> for None, else <<reader>>)
    cgen,      \* the iter_chunks() generator: [pc, size, out, raw, err]
    fgen,      \* the iter_files() generators of the session, by number:
               \*   [pc, branch, out, err]
    unscr,     \* history: the _unscramble_chunk calls of the session, in order
    completed, \* history: what each finished iter_files() yielded, in order of finishing
    fetch,     \* the last get_data call, <<>> or <<[entry, before, err, ret]>>
    fop        \* entry spec: the FileOrPath_1114 last built, <<>> or <<entry>>

cursorVars == <<sr, last, skipped>>

sessionVars == <<fgen, unscr, completed, fetch>>

archiveVars == <<xr, cgen, fgen, unscr, completed, fetch, fop>>

vars == <<sr, last, skipped, xr, cgen, fgen, unscr, completed, fetch, fop>>

\* The variables of a part the specification at hand does not use.
CursorIdle == sr = <<>> /\ last = <<>> /\ skipped = FALSE

SessionIdle == fgen = <<>> /\ unscr = <<>> /\ completed = <<>> /\ fetch = <<>>

EntryIdle == fop = <<>>

ArchiveIdle == xr = <<>> /\ cgen = <<>> /\ SessionIdle /\ EntryIdle

\* ------------------------------------------------------------------ bounds

MaxBufLen == 5
MaxReadK == 3
MaxChunks == 2
MaxPayload == 1

\* ----------------------------------------------------------------- helpers

None == "None"

Min(a, b) == IF a < b THEN a ELSE b

Max(a, b) == IF a > b THEN a ELSE b

\* Python's buff[lo:hi] for 0 <= lo: hi clamped to the buffer, a negative hi
\* counted from its end; never failing.
PySlice(buff, lo, hi) ==
    LET h == IF hi < 0 THEN Max(hi + Len(buff), 0) ELSE Min(hi, Len(buff))
    IN  IF lo >= h THEN <<>> ELSE SubSeq(buff, lo + 1, h)

\* Python's buff.find(b'\0', start): first index >= start holding 0, or -1.
PyFind0(buff, start) ==
    LET S == {i \in start..(Len(buff) - 1) : buff[i + 1] = 0}
    IN  IF S = {} THEN -1 ELSE CHOOSE i \in S : \A j \in S : i <= j

\* A Python int as bit 31 and the low 31 bits.
PyInt(n) == [b31 |-> 0, low |-> n]

\* struct's little-endian unsigned field of Len(bs) bytes (2 for H, 4 for I).
Unpack(bs) ==
    IF Len(bs) = 2
    THEN PyInt(bs[1] + 256 * bs[2])
    ELSE [b31 |-> bs[4] \div 128,
          low |-> bs[1] + 256 * bs[2] + 65536 * bs[3] + 16777216 * (bs[4] % 128)]

\* Little-endian bytes of a 32-bit value.
Pack(x) ==
    <<x.low % 256, (x.low \div 256) % 256, (x.low \div 65536) % 256,
      (x.low \div 16777216) + 128 * x.b31>>

\* A struct format string is the sequence of its field codes: "HIII" is
\* <<"H", "I", "I", "I">>.  H is an unsigned 16-bit field, I an unsigned 32-bit one.
FieldWidths(format) == [i \in DOMAIN format |-> IF format[i] = "H" THEN 2 ELSE 4]

RECURSIVE SumSeq(_)
SumSeq(s) == IF s = <<>> THEN 0 ELSE Head(s) + SumSeq(Tail(s))

\* Struct(byte_order + format).size with byte_order '<': packed, no padding.
calc_size(format) == SumSeq(FieldWidths(format))

\* Struct(format).size without a byte order: native alignment, every field
\* padded to a multiple of its own width.
RECURSIVE NativeEnd(_, _)
NativeEnd(widths, at) ==
    IF widths = <<>> THEN at
    ELSE LET w == Head(widths)
             start == ((at + w - 1) \div w) * w
         IN  NativeEnd(Tail(widths), start + w)

calc_len(format) == NativeEnd(FieldWidths(format), 0)

\* Struct.unpack: one int per field, in field order.
RECURSIVE UnpackFields(_, _)
UnpackFields(bs, widths) ==
    IF widths = <<>> THEN <<>>
    ELSE <<Unpack(SubSeq(bs, 1, Head(widths)))>>
         \o UnpackFields(SubSeq(bs, Head(widths) + 1, Len(bs)), Tail(widths))

\* A Python value passed where a struct format is expected: a str (its field
\* codes) or an int.
PyStr(s) == [kind |-> "str", val |-> s]

PyNum(n) == [kind |-> "int", val |-> n]

\* bytes.decode(): UTF-8, strict.  Returns the code points or the error.
Cont(b) == b >= 128 /\ b <= 191

RECURSIVE Utf8(_)
Utf8(bs) ==
    IF bs = <<>> THEN [err |-> None, chars |-> <<>>]
    ELSE LET b == bs[1]
             n == IF b < 128 THEN 1
                  ELSE IF b >= 194 /\ b <= 223 THEN 2
                  ELSE IF b >= 224 /\ b <= 239 THEN 3
                  ELSE IF b >= 240 /\ b <= 244 THEN 4
                  ELSE 0
             ok == /\ n > 0
                   /\ Len(bs) >= n
                   /\ \A i \in 2..n : Cont(bs[i])
                   /\ (b = 224 => bs[2] >= 160)
                   /\ (b = 237 => bs[2] <= 159)
                   /\ (b = 240 => bs[2] >= 144)
                   /\ (b = 244 => bs[2] <= 143)
         IN  IF ~ok THEN [err |-> "UnicodeDecodeError", chars |-> <<>>]
             ELSE LET cp == CASE n = 1 -> b
                              [] n = 2 -> (b % 32) * 64 + (bs[2] % 64)
                              [] n = 3 -> (b % 16) * 4096 + (bs[2] % 64) * 64 + (bs[3] % 64)
                              [] n = 4 -> (b % 8) * 262144 + (bs[2] % 64) * 4096
                                          + (bs[3] % 64) * 64 + (bs[4] % 64)
                      rest == Utf8(SubSeq(bs, n + 1, Len(bs)))
                  IN  IF rest.err # None THEN rest
                      ELSE [err |-> None, chars |-> <<cp>> \o rest.chars]

\* for k in range(lo, hi): st = Body(st, k).  The range is run in order, split
\* in halves; the bound variable makes the first half a value before the
\* second half starts.
RECURSIVE For(_, _, _, _)
For(Body(_, _), st, lo, hi) ==
    IF lo >= hi THEN st
    ELSE IF hi = lo + 1 THEN Body(st, lo)
    ELSE CHOOSE r \in {For(Body, half, (lo + hi) \div 2, hi) :
                       half \in {For(Body, st, lo, (lo + hi) \div 2)}} : TRUE

\* --------------------------------------------------------- SequensorReader
\* Every method is an operator from the reader s = [buff, pos, view] to
\* [sr, err, ret]: the reader after the call, the exception raised (or None)
\* and the value returned (<<>> when the call raised).  view tells that buff
\* is a memoryview over the bytes, not a bytes object.

Raise(s, e) == [sr |-> s, err |-> e, ret |-> <<>>]

Return(s, r) == [sr |-> s, err |-> None, ret |-> r]

SequensorReader(buff) == [buff |-> buff, pos |-> 0, view |-> FALSE]

\* SequensorReader(memoryview(buff))
SequensorReaderOfView(buff) == [buff |-> buff, pos |-> 0, view |-> TRUE]

read(s, format) ==
    LET size == calc_size(format)
    IN  IF s.pos + size > Len(s.buff)
        THEN Raise(s, "OutOfBoundException")
        ELSE Return([s EXCEPT !.pos = s.pos + size],
                    UnpackFields(PySlice(s.buff, s.pos, s.pos + size), FieldWidths(format)))

\* A memoryview has no find method.
read_string(s) ==
    LET string_end_index == PyFind0(s.buff, s.pos)
    IN  IF s.view
        THEN Raise(s, "AttributeError")
        ELSE IF string_end_index < 0
        THEN Raise(s, "OutOfBoundException")
        ELSE LET d == Utf8(PySlice(s.buff, s.pos, string_end_index))
             IN  IF d.err # None THEN Raise(s, d.err)
                 ELSE Return([s EXCEPT !.pos = string_end_index + 1], d.chars)

\* read_bytes with the length check dropped: the slice is returned as is.
read_bytes_clamped(s, size, update_position) ==
    Return(IF update_position THEN [s EXCEPT !.pos = s.pos + size] ELSE s,
           PySlice(s.buff, s.pos, s.pos + size))

\* read_bytes(size): size is an int; the slice of a negative size is never
\* that long.
read_bytes(s, size, update_position) ==
    LET ret == PySlice(s.buff, s.pos, s.pos + size)
    IN  IF Len(ret) # size
        THEN Raise(s, "OutOfBoundException")
        ELSE Return(IF update_position THEN [s EXCEPT !.pos = s.pos + size] ELSE s, ret)

\* read_bytes(): size omitted (None).
read_bytes_all(s, update_position) ==
    Return(IF update_position THEN [s EXCEPT !.pos = Len(s.buff) + 1] ELSE s,
           PySlice(s.buff, s.pos, Len(s.buff)))

remain(s) == Len(s.buff) - s.pos

\* skip(format): Struct(format) takes a str; any other argument is a TypeError.
skip(s, format) ==
    IF format.kind # "str"
    THEN Raise(s, "TypeError")
    ELSE Return([s EXCEPT !.pos = s.pos + calc_len(format.val)], <<>>)

\* ---------------------------------------------------------------- XRReader
\* 32-bit values as [b31, low]; the bitwise operators on them.

RECURSIVE BitAnd(_, _)
BitAnd(a, b) ==
    IF a = 0 \/ b = 0 THEN 0
    ELSE (a % 2) * (b % 2) + 2 * BitAnd(a \div 2, b \div 2)

RECURSIVE BitXor(_, _)
BitXor(a, b) ==
    IF a = 0 THEN b
    ELSE IF b = 0 THEN a
    ELSE ((a + b) % 2) + 2 * BitXor(a \div 2, b \div 2)

And32(x, y) == [b31 |-> x.b31 * y.b31, low |-> BitAnd(x.low, y.low)]

Xor32(x, y) == [b31 |-> (x.b31 + y.b31) % 2, low |-> BitXor(x.low, y.low)]

\* class DbVersion
DB_VERSION_AUTO == 0
DB_VERSION_1114 == 1
DB_VERSION_2215 == 2
DB_VERSION_2945 == 4
DB_VERSION_2947RU == 8
DB_VERSION_2947WW == 16
DB_VERSION_XDB == 32

DbVersions == {DB_VERSION_1114, DB_VERSION_2215, DB_VERSION_2945,
               DB_VERSION_2947RU, DB_VERSION_2947WW, DB_VERSION_XDB}

\* class ChunkTypes: every name of the IntEnum is a member of it.
DB_CHUNK_DATA == PyInt(0)

DB_CHUNK_HEADER == PyInt(1)

DB_CHUNK_USERDATA == PyInt(666)

CHUNK_COMPRESSED == [b31 |-> 1, low |-> 0]

\* CHUNK_COMPRESSED ^ ((1 << CHUNK_COMPRESSED.bit_length()) - 1), bit_length 32
DB_CHUNK_MASK == Xor32(CHUNK_COMPRESSED, [b31 |-> 1, low |-> 2147483647])

ChunkTypes ==
    {DB_CHUNK_DATA, DB_CHUNK_HEADER, DB_CHUNK_USERDATA, CHUNK_COMPRESSED, DB_CHUNK_MASK}

NoChunk == [type |-> PyInt(0), size |-> PyInt(0), parent_pos |-> -1, is_compressed |-> FALSE]

\* Chunk._check: parent_pos + size > len(buff), for a 32-bit size (written
\* without the sum, which may pass 2^31).
Overruns(parent_pos, size, buff) ==
    size.b31 = 1 \/ size.low > Len(buff) - parent_pos

\* Chunk.__init__(type, size, parent_sr): [err, chunk]
Chunk(type, size, parent_sr) ==
    LET t == And32(type, DB_CHUNK_MASK)
    IN  IF t \notin ChunkTypes
        THEN [err |-> "WrongDbFormat", chunk |-> NoChunk]
        ELSE IF Overruns(parent_sr.pos, size, parent_sr.buff)
        THEN [err |-> "DbFileOverrun", chunk |-> NoChunk]
        ELSE [err |-> None,
              chunk |-> [type |-> t, size |-> size, parent_pos |-> parent_sr.pos,
                         is_compressed |-> And32(type, CHUNK_COMPRESSED) # PyInt(0)]]

\* Chunk.get_data: [err, data]
Chunk_get_data(chunk, buff) ==
    IF Overruns(chunk.parent_pos, chunk.size, buff)
    THEN [err |-> "DbFileOverrun", data |-> <<>>]
    ELSE [err |-> None,
          data |-> PySlice(buff, chunk.parent_pos, chunk.parent_pos + chunk.size.low)]

\* One resumption of the iter_chunks generator g = [pc, size] on the archive
\* reader s: runs the body up to the next yield, the end of the loop or an
\* exception.  pc is "created" (body not entered), "yielded" (suspended at the
\* yield; size is the yielded chunk's size), "done" or "raised".
\* Returns [sr, g, chunk, raw, err]; raw is the type field read, if one was.
NoRaw == [b31 |-> -1, low |-> -1]

\* Chunk(type, size, self.sr) having returned c after the read r
ChunkBuilt(r, c) ==
    IF c.err # None
    THEN [sr |-> r.sr, g |-> [pc |-> "raised", size |-> PyInt(0)],
          chunk |-> NoChunk, raw |-> r.ret[1], err |-> c.err]
    ELSE [sr |-> r.sr, g |-> [pc |-> "yielded", size |-> r.ret[2]],
          chunk |-> c.chunk, raw |-> r.ret[1], err |-> None]

\* type, size = self.sr.read('II') having returned r
ChunkRead(r) ==
    IF r.err # None
    THEN [sr |-> r.sr, g |-> [pc |-> "raised", size |-> PyInt(0)],
          chunk |-> NoChunk, raw |-> NoRaw, err |-> r.err]
    ELSE ChunkBuilt(r, Chunk(r.ret[1], r.ret[2], r.sr))

ChunksLoop(s) ==
    IF ~(s.pos < Len(s.buff))
    THEN [sr |-> s, g |-> [pc |-> "done", size |-> PyInt(0)],
          chunk |-> NoChunk, raw |-> NoRaw, err |-> None]
    ELSE ChunkRead(read(s, <<"I", "I">>))

\* skip with an int where the format is expected, as iter_chunks calls it.
skip_size(s, size) == skip(s, PyNum(size))

\* The loop test is reached from the top of the body (self.sr.pos = 0) or from
\* the skip after the yield, k the [sr, err, ret] of either.
ChunksResume(k) ==
    IF k.err # None
    THEN [sr |-> k.sr, g |-> [pc |-> "raised", size |-> PyInt(0)],
          chunk |-> NoChunk, raw |-> NoRaw, err |-> k.err]
    ELSE ChunksLoop(k.sr)

iter_chunks_next(s, g) ==
    ChunksResume(IF g.pc = "created" THEN Return([s EXCEPT !.pos = 0], <<>>)
                 ELSE skip_size(s, g.size))

\* find_chunk(_type): the for loop over iter_chunks.  [sr, err, chunk, found]
RECURSIVE FindLoop(_, _, _)
RECURSIVE FindNext(_, _)
\* One turn of the for loop, next() on the generator having returned n
FindNext(n, type) ==
    IF n.err # None
    THEN [sr |-> n.sr, err |-> n.err, chunk |-> NoChunk, found |-> FALSE]
    ELSE IF n.g.pc = "done"
    THEN [sr |-> n.sr, err |-> None, chunk |-> NoChunk, found |-> FALSE]
    ELSE IF n.chunk.type = type
    THEN [sr |-> n.sr, err |-> None, chunk |-> n.chunk, found |-> TRUE]
    ELSE FindLoop(n.sr, n.g, type)

FindLoop(s, g, type) == FindNext(iter_chunks_next(s, g), type)

find_chunk(s, type) == FindLoop(s, [pc |-> "created", size |-> PyInt(0)], type)


\* ------------------------------------------------------------- XRScrambler
\* The keystream state is a Python int.  decrypt and _init_sboxes keep it as a
\* signed 32-bit value (the "negative value" correction after masking), held
\* here as an integer in -2^31 .. 2^31 - 1; encrypt keeps the masked unsigned
\* value, held as [b31, low].

SEED_MULT == 134775813
SEED_RU == 20031955
SEED0_RU == 20091958
SIZE_MULT_RU == 8
SEED_WW == 24031979
SEED0_WW == 6011979
SIZE_MULT_WW == 4
SBOX_SIZE == 256

\* XRScramblerConfig
CC_RU == 1
CC_WW == 2

\* The four bytes, low first, of n & 0xFFFFFFFF for a signed n.
BytesOf(n) ==
    <<n % 256, (n \div 256) % 256, (n \div 65536) % 256, (n \div 16777216) % 256>>

\* (1 + x * y) & 0xFFFFFFFF on byte sequences, as bytes (schoolbook product,
\* every partial sum below 2^31).
MulAdd1(x, y) ==
    LET c0 == x[1] * y[1] + 1
        c1 == x[1] * y[2] + x[2] * y[1] + (c0 \div 256)
        c2 == x[1] * y[3] + x[2] * y[2] + x[3] * y[1] + (c1 \div 256)
        c3 == x[1] * y[4] + x[2] * y[3] + x[3] * y[2] + x[4] * y[1] + (c2 \div 256)
    IN  <<c0 % 256, c1 % 256, c2 % 256, c3 % 256>>

\* seed = (1 + seed * SEED_MULT) & 0xFFFFFFFF, then the sign correction
\* seed = (seed & 0x7FFFFFFF) - 0x80000000 when bit 31 is set.
\* The sign correction on the four bytes m of the masked seed.
Signed(m) ==
    m[1] + 256 * m[2] + 65536 * m[3] + 16777216 * (m[4] % 128)
      + (IF m[4] >= 128 THEN -2147483647 - 1 ELSE 0)

NextSeedSigned(seed) == Signed(MulAdd1(BytesOf(seed), BytesOf(SEED_MULT)))

\* seed = 1 + seed * SEED_MULT; seed &= 0xFFFFFFFF
NextSeedMasked(seed) == Unpack(MulAdd1(Pack(seed), BytesOf(SEED_MULT)))

\* (seed >> 24) & 0xff
TopByteSigned(seed) == (seed \div 16777216) % 256

TopByteMasked(seed) == (seed.low \div 16777216) + 128 * seed.b31

\* The inner while True loop: draw b until a != b.  [seed, a, b]
RECURSIVE DrawB(_, _)
RECURSIVE Drawn(_, _)
\* b = (seed >> 24) & 0xff; if a != b: break
Drawn(n, a) ==
    IF a # TopByteSigned(n)
    THEN [seed |-> n, a |-> a, b |-> TopByteSigned(n)]
    ELSE DrawB(n, a)

DrawB(seed, a) == Drawn(NextSeedSigned(seed), a)

\* One turn of the scramble loop on st = [seed, box]; the loop index is not used.
\* a = (seed >> 24) & 0xff for the seed n just drawn, then the inner loop
DrawA(n) == DrawB(n, TopByteSigned(n))

\* m_enc_sbox[a] = m_enc_sbox[b]: the element at b copied, not exchanged.
SwapCopied(box, d) ==
    [seed |-> d.seed, box |-> [box EXCEPT ![d.a] = box[d.b]]]

\* m_enc_sbox[a], m_enc_sbox[b] = m_enc_sbox[b], m_enc_sbox[a]
Swap(box, d) ==
    [seed |-> d.seed, box |-> [box EXCEPT ![d.a] = box[d.b], ![d.b] = box[d.a]]]

ScrambleStep(st, i) == Swap(st.box, DrawA(NextSeedSigned(st.seed)))

\* for i in range(SBOX_SIZE): m_dec_sbox[m_enc_sbox[i]] = i
Inverted(m_enc_sbox) ==
    [enc |-> m_enc_sbox,
     dec |-> [v \in 0..(SBOX_SIZE - 1) |->
                 CHOOSE i \in 0..(SBOX_SIZE - 1) :
                    /\ m_enc_sbox[i] = v
                    /\ \A j \in 0..(SBOX_SIZE - 1) : m_enc_sbox[j] = v => j <= i]]

\* _init_sboxes(seed, size_mult): [enc, dec]
init_sboxes(seed, size_mult) ==
    Inverted(For(ScrambleStep,
                 [seed |-> seed, box |-> [i \in 0..(SBOX_SIZE - 1) |-> i % 256]],
                 0, size_mult * SBOX_SIZE).box)

SboxesRU == init_sboxes(SEED0_RU, SIZE_MULT_RU)

SboxesWW == init_sboxes(SEED0_WW, SIZE_MULT_WW)

\* XRScrambler(config): [m_seed, m_enc_sbox, m_dec_sbox]
\* The object _init leaves: [m_seed, m_enc_sbox, m_dec_sbox]
Keyed(m_seed, sboxes) ==
    [m_seed |-> m_seed, m_enc_sbox |-> sboxes.enc, m_dec_sbox |-> sboxes.dec]

XRScrambler(config) ==
    Keyed(IF config = CC_RU THEN SEED_RU ELSE SEED_WW,
          IF config = CC_RU THEN SboxesRU ELSE SboxesWW)

\* bytearray(b'0' * n): n times the character '0'
Zeros48(n) == [i \in 1..n |-> 48]

\* decrypt, one turn of the loop.  st = [scrambler, src, seed, dest]
\* dest[i] = m_dec_sbox[src[i] ^ ((seed >> 24) & 0xff)] for the seed n just drawn
DecryptWith(st, i, n) ==
    [st EXCEPT !.seed = n,
               !.dest[i + 1] =
                   st.scrambler.m_dec_sbox[BitXor(st.src[i + 1], TopByteSigned(n))]]

DecryptByte(st, i) == DecryptWith(st, i, NextSeedSigned(st.seed))

decrypt(scrambler, src) ==
    For(DecryptByte,
        [scrambler |-> scrambler, src |-> src, seed |-> scrambler.m_seed,
         dest |-> Zeros48(Len(src))],
        0, Len(src)).dest

\* encrypt, one turn of the loop.  st = [scrambler, src, seed, dest]
\* dest[i] = m_enc_sbox[src[i]] ^ ((seed >> 24) & 0xff) for the seed n just drawn
EncryptWith(st, i, n) ==
    [st EXCEPT !.seed = n,
               !.dest[i + 1] =
                   BitXor(st.scrambler.m_enc_sbox[st.src[i + 1]], TopByteMasked(n))]

\* One turn of encrypt with the seed left as it is.
EncryptByteStale(st, i) == EncryptWith(st, i, st.seed)

EncryptByte(st, i) == EncryptWith(st, i, NextSeedMasked(st.seed))

encrypt(scrambler, src) ==
    For(EncryptByte,
        [scrambler |-> scrambler, src |-> src, seed |-> PyInt(scrambler.m_seed),
         dest |-> Zeros48(Len(src))],
        0, Len(src)).dest

\* ------------------------------------------------------------------- LzHuf
\* The decoder object is the record h of its attributes; lists are functions
\* on 0 .. len - 1.  Every method is an operator from h to the h after it.
\* A method that uses the result of a call several times is split at the
\* call: the part after it is an operator of its own that takes the result.

N == 4096
F == 60
THRESHOLD == 2
MAX_FREQ == 16384

N_CHAR == 256 - THRESHOLD + F
T == N_CHAR * 2 - 1
R == T - 1

RECURSIVE BitOr(_, _)
BitOr(a, b) ==
    IF a = 0 THEN b
    ELSE IF b = 0 THEN a
    ELSE (IF a % 2 = 1 \/ b % 2 = 1 THEN 1 ELSE 0) + 2 * BitOr(a \div 2, b \div 2)

RECURSIVE Pow2(_)
Pow2(n) == IF n = 0 THEN 1 ELSE 2 * Pow2(n - 1)

\* bytearray(n)
Zeros(n) == [i \in 1..n |-> 0]

d_code ==
    <<0, 0, 0, 0, 0, 0, 0, 0, 0, 0, 0, 0, 0, 0, 0, 0,
      0, 0, 0, 0, 0, 0, 0, 0, 0, 0, 0, 0, 0, 0, 0, 0,
      1, 1, 1, 1, 1, 1, 1, 1, 1, 1, 1, 1, 1, 1, 1, 1,
      2, 2, 2, 2, 2, 2, 2, 2, 2, 2, 2, 2, 2, 2, 2, 2,
      3, 3, 3, 3, 3, 3, 3, 3, 3, 3, 3, 3, 3, 3, 3, 3,
      4, 4, 4, 4, 4, 4, 4, 4, 5, 5, 5, 5, 5, 5, 5, 5,
      6, 6, 6, 6, 6, 6, 6, 6, 7, 7, 7, 7, 7, 7, 7, 7,
      8, 8, 8, 8, 8, 8, 8, 8, 9, 9, 9, 9, 9, 9, 9, 9,
      10, 10, 10, 10, 10, 10, 10, 10, 11, 11, 11, 11, 11, 11, 11, 11,
      12, 12, 12, 12, 13, 13, 13, 13, 14, 14, 14, 14, 15, 15, 15, 15,
      16, 16, 16, 16, 17, 17, 17, 17, 18, 18, 18, 18, 19, 19, 19, 19,
      20, 20, 20, 20, 21, 21, 21, 21, 22, 22, 22, 22, 23, 23, 23, 23,
      24, 24, 25, 25, 26, 26, 27, 27, 28, 28, 29, 29, 30, 30, 31, 31,
      32, 32, 33, 33, 34, 34, 35, 35, 36, 36, 37, 37, 38, 38, 39, 39,
      40, 40, 41, 41, 42, 42, 43, 43, 44, 44, 45, 45, 46, 46, 47, 47,
      48, 49, 50, 51, 52, 53, 54, 55, 56, 57, 58, 59, 60, 61, 62, 63>>

d_len ==
    <<3, 3, 3, 3, 3, 3, 3, 3, 3, 3, 3, 3, 3, 3, 3, 3,
      3, 3, 3, 3, 3, 3, 3, 3, 3, 3, 3, 3, 3, 3, 3, 3,
      4, 4, 4, 4, 4, 4, 4, 4, 4, 4, 4, 4, 4, 4, 4, 4,
      4, 4, 4, 4, 4, 4, 4, 4, 4, 4, 4, 4, 4, 4, 4, 4,
      4, 4, 4, 4, 4, 4, 4, 4, 4, 4, 4, 4, 4, 4, 4, 4,
      5, 5, 5, 5, 5, 5, 5, 5, 5, 5, 5, 5, 5, 5, 5, 5,
      5, 5, 5, 5, 5, 5, 5, 5, 5, 5, 5, 5, 5, 5, 5, 5,
      5, 5, 5, 5, 5, 5, 5, 5, 5, 5, 5, 5, 5, 5, 5, 5,
      5, 5, 5, 5, 5, 5, 5, 5, 5, 5, 5, 5, 5, 5, 5, 5,
      6, 6, 6, 6, 6, 6, 6, 6, 6, 6, 6, 6, 6, 6, 6, 6,
      6, 6, 6, 6, 6, 6, 6, 6, 6, 6, 6, 6, 6, 6, 6, 6,
      6, 6, 6, 6, 6, 6, 6, 6, 6, 6, 6, 6, 6, 6, 6, 6,
      7, 7, 7, 7, 7, 7, 7, 7, 7, 7, 7, 7, 7, 7, 7, 7,
      7, 7, 7, 7, 7, 7, 7, 7, 7, 7, 7, 7, 7, 7, 7, 7,
      7, 7, 7, 7, 7, 7, 7, 7, 7, 7, 7, 7, 7, 7, 7, 7,
      8, 8, 8, 8, 8, 8, 8, 8, 8, 8, 8, 8, 8, 8, 8, 8>>

\* LzHuf.__init__
LzHuf ==
    [kind |-> "LzHuf",
     freq |-> [i \in 0..T |-> 0],
     son |-> [i \in 0..(T - 1) |-> 0],
     prnt |-> [i \in 0..(T + N_CHAR - 1) |-> 0],
     text_buf |-> [i \in 0..(N + F - 2) |-> 0],
     getbuf |-> 0, getlen |-> 0,
     m_src |-> <<>>, m_src_pos |-> 0, m_src_limit |-> 0,
     m_dest |-> <<>>, m_dest_pos |-> 0, m_dest_limit |-> 0,
     textsize |-> 0, codesize |-> 0]

\* StartHuff, first loop: one leaf
StartLeaf(h, i) == [h EXCEPT !.freq[i] = 1, !.son[i] = i + T, !.prnt[i + T] = i]

\* StartHuff, second loop: node j over the pair i, i + 1; i runs 0, 2, 4, ..
\* while j runs N_CHAR ..
StartNode(h, j) ==
    LET i == 2 * (j - N_CHAR)
    IN  [h EXCEPT !.freq[j] = h.freq[i] + h.freq[i + 1], !.son[j] = i,
                  !.prnt[i] = j, !.prnt[i + 1] = j]

StartHuff(h) ==
    LET nodes == For(StartNode, For(StartLeaf, h, 0, N_CHAR), N_CHAR, R + 1)
    IN  [nodes EXCEPT !.freq[T] = 65535, !.prnt[R] = 0]

\* getc: [h, c]
getc(h) ==
    IF h.m_src_pos < h.m_src_limit
    THEN [h |-> [h EXCEPT !.m_src_pos = h.m_src_pos + 1], c |-> h.m_src[h.m_src_pos + 1]]
    ELSE [h |-> h, c |-> -1]

\* getbuf holds the low 16 bits of self.getbuf.  Bytes enter at bits 0..15
\* (getlen is never above 8 when one enters), shifts move bits upwards only,
\* and GetBit and GetByte return bit 15 and bits 8..15: the bits above 15,
\* which GetBit masks to 32 bits and GetByte leaves unmasked, are never read.
\* The while getlen <= 8 loop of GetBit and of GetByte.
RECURSIVE FillBuf(_)
FillBuf(h) ==
    IF h.getlen > 8 THEN h
    ELSE LET g == getc(h)
             i == IF g.c < 0 THEN 0 ELSE g.c
         IN  FillBuf([g.h EXCEPT !.getbuf = BitOr(h.getbuf, i * Pow2(8 - h.getlen)) % 65536,
                                 !.getlen = h.getlen + 8])

\* GetBit after its while loop: [h, bit]
TakeBit(g) ==
    [h |-> [g EXCEPT !.getbuf = (g.getbuf * 2) % 65536, !.getlen = g.getlen - 1],
     bit |-> (g.getbuf \div 32768) % 2]

\* GetBit: [h, bit]
GetBit(h) == TakeBit(FillBuf(h))

\* GetByte after its while loop: [h, i]
TakeByte(g) ==
    [h |-> [g EXCEPT !.getbuf = (g.getbuf * 256) % 65536, !.getlen = g.getlen - 8],
     i |-> (g.getbuf \div 256) % 256]

\* GetByte: [h, i]
GetByte(h) == TakeByte(FillBuf(h))

\* reconst, first loop with the frequencies halved rounding down.
ReconstLeafDown(st, i) ==
    IF st.h.son[i] >= T
    THEN [h |-> [st.h EXCEPT !.freq[st.j] = st.h.freq[i] \div 2,
                             !.son[st.j] = st.h.son[i]],
          j |-> st.j + 1]
    ELSE st

\* reconst, first loop: the leaves move to the front, frequencies halved.
\* st = [h, j]
ReconstLeaf(st, i) ==
    IF st.h.son[i] >= T
    THEN [h |-> [st.h EXCEPT !.freq[st.j] = (st.h.freq[i] + 1) \div 2,
                             !.son[st.j] = st.h.son[i]],
          j |-> st.j + 1]
    ELSE st

\* while f < freq[k]: k -= 1, from k down: the highest index at or below k
\* where the loop condition fails.
ReconstSlot(h, f, k) ==
    CHOOSE m \in 0..k : ~(f < h.freq[m]) /\ \A q \in (m + 1)..k : f < h.freq[q]

\* reconst, second loop: node j over the pair i, i + 1 is inserted at slot k,
\* the entries k .. j - 1 of freq and son moving up by one (the memmove).
\* @@ <<>> makes each new table an explicit function of its own, as the
\* lists are, not a rule over the table before.
ReconstNode(h, j) ==
    LET i == 2 * (j - N_CHAR)
        f == h.freq[i] + h.freq[i + 1]
        h1 == [h EXCEPT !.freq[j] = f]
        k == ReconstSlot(h1, f, j - 1) + 1
    IN  [h1 EXCEPT
            !.freq = [x \in 0..T |-> IF x = k THEN f
                                     ELSE IF k < x /\ x <= j THEN h1.freq[x - 1]
                                     ELSE h1.freq[x]] @@ <<>>,
            !.son = [x \in 0..(T - 1) |-> IF x = k THEN i
                                          ELSE IF k < x /\ x <= j THEN h1.son[x - 1]
                                          ELSE h1.son[x]] @@ <<>>]

\* reconst, third loop: connect prnt
ReconstParent(h, i) ==
    LET k == h.son[i]
    IN  IF k >= T THEN [h EXCEPT !.prnt[k] = i]
        ELSE [h EXCEPT !.prnt[k] = i, !.prnt[k + 1] = i]

reconst(h) ==
    LET leaves == For(ReconstLeaf, [h |-> h, j |-> 0], 0, T).h
    IN  For(ReconstParent, For(ReconstNode, leaves, N_CHAR, T), 0, T)

\* update without the while k > freq[l + 1] loop.
SwapNext(h, k, l) == l

\* update: while k > freq[l + 1]: l += 1, from l up: the lowest index at or
\* above l where the loop condition fails.
SwapPartner(h, k, l) ==
    CHOOSE m \in l..R : ~(k > h.freq[m + 1]) /\ \A q \in l..(m - 1) : k > h.freq[q + 1]

\* The exchange with prnt set for the first child of each node only.
ExchangeFirst(h, c, k, l) ==
    [h EXCEPT !.freq = [h.freq EXCEPT ![c] = h.freq[l], ![l] = k],
              !.son = [h.son EXCEPT ![l] = h.son[c], ![c] = h.son[l]],
              !.prnt = [h.prnt EXCEPT ![h.son[c]] = l, ![h.son[l]] = c]]

\* update: the exchange of nodes c and l, freq[c] being k already
Exchange(h, c, k, l) ==
    LET i == h.son[c]
        j == h.son[l]
        p1 == [h.prnt EXCEPT ![i] = l]
        p2 == IF i < T THEN [p1 EXCEPT ![i + 1] = l] ELSE p1
        p3 == [p2 EXCEPT ![j] = c]
        p4 == IF j < T THEN [p3 EXCEPT ![j + 1] = c] ELSE p3
    IN  [h EXCEPT !.freq = [h.freq EXCEPT ![c] = h.freq[l], ![l] = k],
                  !.son = [h.son EXCEPT ![l] = i, ![c] = j],
                  !.prnt = p4]

\* update: the while True loop, from node c up to the root
RECURSIVE UpdateLoop(_, _)
UpdateLoop(h, c) ==
    LET k == h.freq[c] + 1
        h1 == [h EXCEPT !.freq[c] = k]
        swap == k > h1.freq[c + 1]
        l == IF swap THEN SwapPartner(h1, k, c + 1) ELSE c
    IN  CHOOSE r \in {IF h2.prnt[l] = 0 THEN h2 ELSE UpdateLoop(h2, h2.prnt[l]) :
                      h2 \in {IF swap THEN Exchange(h1, c, k, l) ELSE h1}} : TRUE

update(h, c) ==
    CHOOSE r \in {UpdateLoop(h0, h0.prnt[c + T]) :
                  h0 \in {IF h.freq[R] = MAX_FREQ THEN reconst(h) ELSE h}} : TRUE

\* DecodeChar: the walk from the root to a leaf.  [h, c]
RECURSIVE Descend(_, _)
Descend(h, c) ==
    IF ~(c < T) THEN [h |-> h, c |-> c]
    ELSE CHOOSE r \in {Descend(g.h, g.h.son[c + g.bit]) : g \in {GetBit(h)}} : TRUE

\* DecodeChar: [h, c]
DecodeChar(h) ==
    CHOOSE r \in {[h |-> update(d.h, d.c - T), c |-> d.c - T] :
                  d \in {Descend(h, h.son[R])}} : TRUE

\* putc without the growth of m_dest.
putc_fixed(h, c) ==
    [h EXCEPT !.m_dest[h.m_dest_pos + 1] = c, !.m_dest_pos = h.m_dest_pos + 1]

\* putc: m_dest doubled when m_dest_pos has reached m_dest_limit, then the
\* store at m_dest_pos.
putc(h, c) ==
    LET g == IF h.m_dest_pos >= h.m_dest_limit
             THEN [h EXCEPT !.m_dest = h.m_dest \o Zeros(h.m_dest_limit),
                            !.m_dest_limit = h.m_dest_limit * 2]
             ELSE h
    IN  [g EXCEPT !.m_dest[g.m_dest_pos + 1] = c, !.m_dest_pos = g.m_dest_pos + 1]

\* i = (i << 1) + GetBit(), the bit read
PositionShift(st, g) == [h |-> g.h, i |-> st.i * 2 + g.bit]

\* return c | i, the shifted value not cut to six bits.
PositionUncut(c, st) == [h |-> st.h, pos |-> BitOr(c, st.i)]

\* return c | (i & 0x3f)
PositionOf(c, st) == [h |-> st.h, pos |-> BitOr(c, st.i % 64)]

\* DecodePosition: while j > 0: i = (i << 1) + GetBit().  st = [h, i]
PositionBit(st, j) == PositionShift(st, GetBit(st.h))

\* DecodePosition after GetByte has returned b = [h, i]: [h, pos]
PositionFrom(b) ==
    PositionOf(d_code[b.i + 1] * 64,
               For(PositionBit, [h |-> b.h, i |-> b.i], 0, d_len[b.i + 1] - 2))

\* DecodePosition: [h, pos]
DecodePosition(h) == PositionFrom(GetByte(h))

\* Decode: putc(c); text_buf[r] = c; r += 1; r &= N - 1; count += 1.
\* st = [h, r, count, i]: the decoder and the locals r, count and i of Decode.
Emit(st, c) ==
    [st EXCEPT !.h = [putc(st.h, c) EXCEPT !.text_buf[st.r] = c],
               !.r = (st.r + 1) % N,
               !.count = st.count + 1]

\* Decode: one turn of the copy loop of a match that starts at ring index i;
\* the byte is read from the ring as the turns before it have left it.
CopyByte(st, k) == Emit(st, st.h.text_buf[(st.i + k) % N])

\* The else arm with the source index one position further on.
MatchNear(st, c, p) ==
    For(CopyByte, [st EXCEPT !.h = p.h, !.i = (st.r - p.pos) % N],
        0, c - 255 + THRESHOLD)

\* Decode: the else arm, symbol c decoded and DecodePosition returned p
Match(st, c, p) ==
    For(CopyByte, [st EXCEPT !.h = p.h, !.i = (st.r - p.pos - 1) % N],
        0, c - 255 + THRESHOLD)

\* Decode: one turn of the while count < self.textsize loop
DecodeTurn(st, turn) ==
    IF ~(st.count < st.h.textsize) THEN st
    ELSE CHOOSE next \in
            {IF d.c < 256
             THEN Emit([st EXCEPT !.h = d.h], d.c)
             ELSE Match(st, d.c, DecodePosition(d.h)) :
             d \in {DecodeChar(st.h)}} : TRUE

\* Decode: while count < self.textsize.  Every turn adds at least 1 to count,
\* so the loop is over after textsize turns at most.
DecodeLoop(st) == For(DecodeTurn, st, 0, st.h.textsize)

\* A Python bytes-like value.
PyBytes(b) == [kind |-> "bytes", val |-> b]

\* Decode: the assignments before StartHuff
DecodeBegin(self, code, textsize) ==
    [self EXCEPT !.textsize = textsize,
                 !.m_dest = Zeros(textsize),
                 !.m_dest_pos = 0,
                 !.m_dest_limit = textsize,
                 !.m_src_limit = Len(code),
                 !.m_src = code,
                 !.m_src_pos = 4,
                 !.getbuf = 0,
                 !.getlen = 0]

\* Decode: for i in range(N - F): self.text_buf[i] = ord(' ')
DecodeSpaces(h) ==
    [h EXCEPT !.text_buf = [i \in 0..(N + F - 2) |-> IF i < N - F THEN 32 ELSE h.text_buf[i]]]

\* Decode returning all of m_dest.
DecodeReturnAll(done) ==
    [self |-> done, err |-> None, ret |-> SubSeq(done.m_dest, 1, done.m_dest_pos)]

\* Decode: return bytes(self.m_dest[:self.textsize])
DecodeReturn(done) ==
    [self |-> done, err |-> None, ret |-> PySlice(done.m_dest, 0, done.textsize)]

\* Decode from self.textsize = ... on, code holding four bytes at least
DecodeBody(self, code) ==
    IF self.kind # "LzHuf"
    THEN [self |-> self, err |-> "AttributeError", ret |-> <<>>]
    ELSE DecodeReturn(
            DecodeLoop([h |-> DecodeSpaces(StartHuff(
                                 DecodeBegin(self, code.val, Unpack(SubSeq(code.val, 1, 4)).low))),
                        r |-> N - F, count |-> 0, i |-> 0]).h)

\* Decode without the check of len(code): a short code gives an empty result.
DecodeUnchecked(self, code) ==
    IF code.kind = "int"
    THEN [self |-> self, err |-> "TypeError", ret |-> <<>>]
    ELSE IF Len(code.val) < 4
    THEN [self |-> self, err |-> None, ret |-> <<>>]
    ELSE DecodeBody(self, code)

\* Decode(self, code): [self, err, ret].  len(code) comes first and needs a
\* sized code; the attribute assignments need self to be a decoder object.
Decode(self, code) ==
    IF code.kind = "int"
    THEN [self |-> self, err |-> "TypeError", ret |-> <<>>]
    ELSE IF Len(code.val) < 4
    THEN [self |-> self, err |-> "WrongDataFormat", ret |-> <<>>]
    ELSE DecodeBody(self, code)

\* ---------------------------------------------- XRReader: entries, header
\* A directory entry is [name, size_real, offset, size_compressed, crc]; the
\* attributes a constructor leaves at None hold NoValue.  A constructor is an
\* operator from the reader it reads from to [sr, err, entry].

NoValue == [b31 |-> -1, low |-> -1]

NoEntry == [name |-> <<>>, size_real |-> NoValue, offset |-> NoValue,
            size_compressed |-> NoValue, crc |-> NoValue]

EntryRaise(s, e) == [sr |-> s, err |-> e, entry |-> NoEntry]

\* The entry a constructor leaves after its last read r: [sr, err, entry]
Entry(r, name, size_real, offset, size_compressed, crc) ==
    IF r.err # None THEN EntryRaise(r.sr, r.err)
    ELSE [sr |-> r.sr, err |-> None,
          entry |-> [name |-> name, size_real |-> size_real, offset |-> offset,
                     size_compressed |-> size_compressed, crc |-> crc]]

\* The index of a field that is not read when the read failed.
Field(f, i) == IF f.err # None THEN NoValue ELSE f.ret[i]

Fields1114(name, f) == Entry(f, name, Field(f, 1), Field(f, 2), Field(f, 3), NoValue)

Named1114(name) ==
    IF name.err # None THEN EntryRaise(name.sr, name.err)
    ELSE Fields1114(name.ret, read(name.sr, <<"I", "I", "I">>))

FileOrPath_1114(s) == Named1114(read_string(s))

Fields2215(name, f) == Entry(f, name, Field(f, 2), Field(f, 1), Field(f, 3), NoValue)

Named2215(name) ==
    IF name.err # None THEN EntryRaise(name.sr, name.err)
    ELSE Fields2215(name.ret, read(name.sr, <<"I", "I", "I">>))

FileOrPath_2215(s) == Named2215(read_string(s))

Fields2945(name, f) == Entry(f, name, Field(f, 3), Field(f, 2), Field(f, 4), Field(f, 1))

Named2945(name) ==
    IF name.err # None THEN EntryRaise(name.sr, name.err)
    ELSE Fields2945(name.ret, read(name.sr, <<"I", "I", "I", "I">>))

FileOrPath_2945(s) == Named2945(read_string(s))

\* sr.read_bytes(name_size - 16).decode(), sr.read('I'): the bytes read from
\* a memoryview are a memoryview, which has no decode method.
\* offset = sr.read('I') having returned o
Offset2947(f, name, o) == Entry(o, name, f.ret[2], Field(o, 1), f.ret[3], f.ret[4])

\* .decode() on the bytes read having returned name
Decoded2947(f, b, name) ==
    IF name.err # None THEN EntryRaise(b.sr, name.err)
    ELSE Offset2947(f, name.chars, read(b.sr, <<"I">>))

\* sr.read_bytes(name_size - 16) having returned b
Bytes2947(view, f, b) ==
    IF b.err # None THEN EntryRaise(b.sr, b.err)
    ELSE IF view THEN EntryRaise(b.sr, "AttributeError")
    ELSE Decoded2947(f, b, Utf8(b.ret))

\* name_size, size_real, size_compressed, crc = sr.read('HIII') having returned f
Head2947(view, f) ==
    IF f.err # None THEN EntryRaise(f.sr, f.err)
    ELSE Bytes2947(view, f, read_bytes(f.sr, f.ret[1].low - 16, TRUE))

FileOrPath_2947(s) == Head2947(s.view, read(s, <<"H", "I", "I", "I">>))

\* DB_VERSION_FILE_OR_PATH[self.version](sr)
FileOrPathOfVersion(version, s) ==
    CASE version = DB_VERSION_1114 -> FileOrPath_1114(s)
      [] version = DB_VERSION_2215 -> FileOrPath_2215(s)
      [] version = DB_VERSION_2945 -> FileOrPath_2945(s)
      [] OTHER -> FileOrPath_2947(s)

\* is_file: bool(self.offset)
is_file(e) == e.offset # PyInt(0)

\* A value get_data returns: None, bytes, or what the external lzo.decompress
\* makes of its arguments (raw bytes and the declared real size), kept as
\* the call itself.
PyNone == [kind |-> "None", val |-> <<>>]

LzoDecompress(raw, size_real) == [kind |-> "lzo.decompress", val |-> raw, size |-> size_real]

\* buff[offset:offset + size] for 32-bit offset and size: a bound above the
\* buffer length is the buffer length.
SliceAt(buff, offset, size) ==
    LET lo == IF offset.b31 = 1 THEN Len(buff) ELSE Min(offset.low, Len(buff))
        n == IF size.b31 = 1 THEN Len(buff) ELSE Min(size.low, Len(buff))
    IN  PySlice(buff, lo, lo + n)

\* FileOrPath.get_data after the slice raw_data has been taken
Sliced(e, raw_data) ==
    IF e.size_compressed = e.size_real
    THEN [err |-> None, ret |-> PyBytes(raw_data)]
    ELSE [err |-> None, ret |-> LzoDecompress(raw_data, e.size_real)]

\* FileOrPath.get_data(db_reader), keep_mv left at False: [err, ret]
FileOrPath_get_data(e, buff) ==
    IF is_file(e)
    THEN Sliced(e, SliceAt(buff, e.offset, e.size_compressed))
    ELSE [err |-> None, ret |-> PyNone]

\* The size read_bytes is asked for, as a number: one above the buffer length
\* overruns like every larger one.
SizeToRead(s, size) ==
    IF size.b31 = 1 \/ size.low > Len(s.buff) THEN Len(s.buff) + 1 ELSE size.low

\* FileOrPath_1114.get_data after LzHuf.Decode has returned d
Decoded1114(s, d) ==
    IF d.err # None THEN [sr |-> s, err |-> d.err, ret |-> PyNone]
    ELSE IF d.ret # <<>> THEN [sr |-> s, err |-> None, ret |-> PyBytes(d.ret)]
    ELSE [sr |-> s, err |-> None, ret |-> PyNone]

\* FileOrPath_1114.get_data after read_bytes has returned raw_data.
\* LzHuf.Decode is called on the class, so raw_data is its self and
\* len(raw_data) its code.
Read1114(e, raw_data) ==
    IF raw_data.err # None
    THEN [sr |-> raw_data.sr, err |-> raw_data.err, ret |-> PyNone]
    ELSE IF e.size_real # PyInt(0)
    THEN [sr |-> raw_data.sr, err |-> None, ret |-> PyBytes(raw_data.ret)]
    ELSE Decoded1114(raw_data.sr, Decode(PyBytes(raw_data.ret), PyNum(Len(raw_data.ret))))

\* FileOrPath_1114.get_data(), on the reader s the entry was built from:
\* [sr, err, ret]
FileOrPath_1114_get_data(e, s) ==
    IF is_file(e)
    THEN Read1114(e, read_bytes(s, SizeToRead(s, e.size_compressed), TRUE))
    ELSE [sr |-> s, err |-> None, ret |-> PyNone]

\* unscramble(buff, config), the local function of _unscramble_chunk: the
\* [self, err, ret] of lz_huf.Decode
unscramble(buff, config) == Decode(LzHuf, PyBytes(decrypt(XRScrambler(config), buff)))

\* What _unscramble_chunk returns when Decode has returned d: [err, buff, view]
Unscrambled(d) == [err |-> d.err, buff |-> d.ret, view |-> FALSE]

\* _unscramble_chunk after chunk.get_data() has returned data, a memoryview
\* slice that stays one when nothing is done to it.  LzHuf.Decode is called
\* on the class for the first four versions, so buff is its self and
\* len(buff) its code.
UnscrambleData(version, is_compressed, data) ==
    IF data.err # None THEN [err |-> data.err, buff |-> <<>>, view |-> FALSE]
    ELSE IF /\ version \in {DB_VERSION_1114, DB_VERSION_2215,
                            DB_VERSION_2945, DB_VERSION_XDB}
            /\ is_compressed
    THEN Unscrambled(Decode(PyBytes(data.data), PyNum(Len(data.data))))
    ELSE IF version = DB_VERSION_2947RU /\ is_compressed
    THEN Unscrambled(unscramble(data.data, CC_RU))
    ELSE IF version = DB_VERSION_2947WW /\ is_compressed
    THEN Unscrambled(unscramble(data.data, CC_WW))
    ELSE [err |-> None, buff |-> data.data, view |-> TRUE]

\* _unscramble_chunk(chunk) at the given version, over the archive buffer:
\* [err, buff, view]
unscramble_chunk(version, chunk, archive) ==
    UnscrambleData(version, chunk.is_compressed, Chunk_get_data(chunk, archive))

\* One resumption of an iter_files generator on the archive reader
\* x = [buff, pos, version, header]: runs the body up to the next yield, the
\* end or an exception.  Returns [x, pc, branch, entry, err, calls]: pc as for
\* iter_chunks, branch the arm of the if taken when the body was entered
\* ("cached", "fresh"; "same" on a later resumption), calls the
\* _unscramble_chunk calls made, as records.
FilesStep(x, pc, branch, entry, err, calls) ==
    [x |-> x, pc |-> pc, branch |-> branch, entry |-> entry, err |-> err, calls |-> calls]

\* yield f_type(sr), f_type(sr) having returned e
FilesYield(x, branch, calls, e) ==
    IF e.err # None
    THEN FilesStep([x EXCEPT !.header = <<e.sr>>], "raised", branch, NoEntry, e.err, calls)
    ELSE FilesStep([x EXCEPT !.header = <<e.sr>>], "yielded", branch, e.entry, None, calls)

\* while sr.remain: yield f_type(sr), on the reader the header cache holds
FilesLoop(x, branch, calls) ==
    IF remain(x.header[1]) = 0
    THEN FilesStep(x, "done", branch, NoEntry, None, calls)
    ELSE FilesYield(x, branch, calls, FileOrPathOfVersion(x.version, x.header[1]))

\* The record of one _unscramble_chunk call.
UnscrambleCall(version, chunk, archive, u) ==
    [version |-> version, is_compressed |-> chunk.is_compressed,
     data |-> Chunk_get_data(chunk, archive).data,
     err |-> u.err, buff |-> u.buff, view |-> u.view]

\* iter_files: after buff = self._unscramble_chunk(chunk), which returned u
FilesDecoded(x, call, u) ==
    IF u.err # None THEN FilesStep(x, "raised", "fresh", NoEntry, u.err, <<call>>)
    ELSE FilesLoop([x EXCEPT !.header = <<[SequensorReader(u.buff) EXCEPT !.view = u.view]>>],
                   "fresh", <<call>>)

\* iter_files: the elif arm, find_chunk having returned f and left the
\* archive reader as x has it
FilesFound(x, f, u) ==
    IF f.err # None THEN FilesStep(x, "raised", "fresh", NoEntry, f.err, <<>>)
    ELSE IF ~f.found THEN FilesStep(x, "done", "fresh", NoEntry, None, <<>>)
    ELSE IF f.chunk.size = PyInt(0) THEN FilesStep(x, "done", "fresh", NoEntry, None, <<>>)
    ELSE FilesDecoded(x, UnscrambleCall(x.version, f.chunk, x.buff, u), u)

FilesFresh(x, f) ==
    FilesFound([x EXCEPT !.pos = f.sr.pos], f, unscramble_chunk(x.version, f.chunk, x.buff))

iter_files_next(x, pc) ==
    IF pc = "yielded" \/ x.header # <<>>
    THEN FilesLoop(IF pc = "yielded" THEN x
                   ELSE [x EXCEPT !.header = <<[x.header[1] EXCEPT !.pos = 0]>>],
                   IF pc = "yielded" THEN "same" ELSE "cached", <<>>)
    ELSE FilesFresh(x, find_chunk([SequensorReaderOfView(x.buff) EXCEPT !.pos = x.pos],
                                  DB_CHUNK_HEADER))

\* ------------------------------------------------------------- cursor spec
\* One SequensorReader over a bytes buffer, driven by arbitrary calls.

CursorBytes == {0, 65, 255}

CursorFormats == {<<"H">>, <<"I">>, <<"H", "H">>}

RECURSIVE SeqsUpTo(_, _)
SeqsUpTo(S, n) ==
    IF n = 0 THEN {<<>>}
    ELSE LET P == SeqsUpTo(S, n - 1)
         IN  P \cup {Append(p, x) : p \in {q \in P : Len(q) = n - 1}, x \in S}

Call(op, fmt, k, upd, before, r) ==
    [op |-> op, fmt |-> fmt, k |-> k, upd |-> upd, before |-> before,
     err |-> r.err, ret |-> r.ret]

NoCall == [op |-> "init", fmt |-> <<>>, k |-> 0, upd |-> FALSE, before |-> 0,
           err |-> None, ret |-> <<>>]

CursorInit ==
    /\ sr \in {SequensorReader(b) : b \in SeqsUpTo(CursorBytes, MaxBufLen)}
    /\ last = NoCall
    /\ skipped = FALSE
    /\ ArchiveIdle

Read(format) ==
    LET r == read(sr, format)
    IN  /\ sr' = r.sr
        /\ last' = Call("read", format, 0, TRUE, sr.pos, r)
        /\ UNCHANGED <<skipped, archiveVars>>

ReadString ==
    LET r == read_string(sr)
    IN  /\ sr' = r.sr
        /\ last' = Call("read_string", <<>>, 0, TRUE, sr.pos, r)
        /\ UNCHANGED <<skipped, archiveVars>>

ReadBytes(size, update_position) ==
    LET r == read_bytes(sr, size, update_position)
    IN  /\ sr' = r.sr
        /\ last' = Call("read_bytes", <<>>, size, update_position, sr.pos, r)
        /\ UNCHANGED <<skipped, archiveVars>>

ReadBytesAll(update_position) ==
    LET r == read_bytes_all(sr, update_position)
    IN  /\ sr' = r.sr
        /\ last' = Call("read_bytes_all", <<>>, 0, update_position, sr.pos, r)
        /\ UNCHANGED <<skipped, archiveVars>>

Skip(format) ==
    LET r == skip(sr, PyStr(format))
    IN  /\ sr.pos <= Len(sr.buff)
        /\ sr' = r.sr
        /\ last' = Call("skip", format, 0, TRUE, sr.pos, r)
        /\ skipped' = TRUE
        /\ UNCHANGED archiveVars

CursorNext ==
    \/ \E f \in CursorFormats : Read(f)
    \/ ReadString
    \/ \E k \in 0..MaxReadK, u \in BOOLEAN : ReadBytes(k, u)
    \/ \E u \in BOOLEAN : ReadBytesAll(u)
    \/ \E f \in CursorFormats : Skip(f)

SpecCursor == CursorInit /\ [][CursorNext]_vars

\* -------------------------------------------------------------- chunk spec
\* One XRReader over an archive buffer, and one iter_chunks() generator
\* resumed step by step by its consumer.

\* Type fields the archives of the model carry: the three kinds, plain and
\* with bit 31 set, an unknown code (2), and all low 31 bits set.
TypeCodes ==
    {PyInt(0), PyInt(1), PyInt(666), PyInt(2), PyInt(2147483647),
     [b31 |-> 1, low |-> 0], [b31 |-> 1, low |-> 1], [b31 |-> 1, low |-> 666],
     [b31 |-> 1, low |-> 2147483647]}

PayloadByte == 7

ChunkBytes(type, declared, n) ==
    Pack(type) \o Pack(declared) \o [i \in 1..n |-> PayloadByte]

WellFormedChunk == {ChunkBytes(t, PyInt(n), n) : t \in TypeCodes, n \in 0..MaxPayload}

\* A last chunk that declares more than follows it: one byte more, or 2^32 - 1.
OverrunChunk ==
    UNION {{ChunkBytes(t, PyInt(n + 1), n), ChunkBytes(t, [b31 |-> 1, low |-> 2147483647], n)} :
           t \in TypeCodes, n \in 0..MaxPayload}

\* A last chunk whose 8-byte header is cut short.
CutHeader == {SubSeq(Pack(PyInt(1)) \o Pack(PyInt(0)), 1, k) : k \in 1..7}

RECURSIVE Concats(_, _)
Concats(S, n) ==
    IF n = 0 THEN {<<>>}
    ELSE LET P == Concats(S, n - 1)
         IN  P \cup {p \o x : p \in P, x \in S}

\* The buffers that are a concatenation of at most MaxChunks chunks.
WellFormedBuffers == Concats(WellFormedChunk, MaxChunks)

ArchiveBuffers ==
    LET W == Concats(WellFormedChunk, MaxChunks - 1)
    IN  WellFormedBuffers
        \cup {w \o x : w \in W, x \in OverrunChunk \cup CutHeader}

\* XRReader.__init__ with the file's bytes and the version resolved.
XRReader(buff, version) ==
    [buff |-> buff, pos |-> 0, version |-> version, header |-> <<>>]

ArchiveSR == [SequensorReaderOfView(xr.buff) EXCEPT !.pos = xr.pos]

NewGen == [pc |-> "created", size |-> PyInt(0), out |-> <<>>, raw |-> NoRaw, err |-> None]

ChunksInit ==
    /\ xr \in {XRReader(b, DB_VERSION_XDB) : b \in ArchiveBuffers}
    /\ cgen = [NewGen EXCEPT !.pc = "none"]
    /\ CursorIdle
    /\ SessionIdle
    /\ EntryIdle

\* db_reader.iter_chunks(): the generator object is created, its body not entered.
IterChunks ==
    /\ cgen.pc = "none"
    /\ cgen' = NewGen
    /\ UNCHANGED <<xr, cursorVars, sessionVars, fop>>

\* next() on the generator.
NextChunk ==
    /\ cgen.pc \in {"created", "yielded"}
    /\ LET n == iter_chunks_next(ArchiveSR, cgen)
       IN  /\ xr' = [xr EXCEPT !.pos = n.sr.pos]
           /\ cgen' = [pc |-> n.g.pc, size |-> n.g.size,
                       out |-> IF n.g.pc = "yielded" THEN Append(cgen.out, n.chunk)
                               ELSE cgen.out,
                       raw |-> n.raw, err |-> n.err]
    /\ UNCHANGED <<cursorVars, sessionVars, fop>>

ChunksNext == IterChunks \/ NextChunk

SpecChunks == ChunksInit /\ [][ChunksNext]_vars

\* ------------------------------------------------------------ session spec
\* One XRReader over an archive whose directory (a path "dir", two files
\* "a" and "b") is in its HEADER chunk, and the iter_files() generators its
\* callers hold, each resumed step by step; get_data on the entries yielded.

MaxGens == 2

NameDir == <<100, 105, 114>>

NameA == <<97>>

NameB == <<98>>

\* struct.pack('<HIII', len(name) + 16, size_real, size_compressed, crc) + name
\* + struct.pack('<I', offset): a record as FileOrPath_2947 reads it
Record2947(name, size_real, size_compressed, crc, offset) ==
    SubSeq(Pack(PyInt(Len(name) + 16)), 1, 2) \o Pack(PyInt(size_real))
    \o Pack(PyInt(size_compressed)) \o Pack(PyInt(crc)) \o name \o Pack(PyInt(offset))

\* The LZHUF stream of Table below (45 bytes; its first four are the length 59).
TableLz ==
    <<59, 0, 0, 0, 207, 227, 49, 48, 225, 190, 252, 48, 181, 175, 123, 252,
      62, 191, 235, 222, 245, 157, 172, 125, 85, 88, 213, 85, 85, 87, 183, 147,
      85, 86, 85, 142, 109, 207, 55, 36, 147, 221, 204, 146, 0>>

\* Where the file data starts in an archive made of the compressed HEADER
\* chunk and a DATA chunk: after two 8-byte chunk headers and TableLz.
DataAt == 8 + Len(TableLz) + 8

Table ==
    Record2947(NameDir, 0, 0, 0, 0) \o Record2947(NameA, 3, 3, 0, DataAt)
    \o Record2947(NameB, 2, 2, 0, DataAt + 3)

\* The bytes of "a" and "b", and the archives that end one and two bytes early.
FileData == <<120, 121, 122, 117, 118>>

FileDatas == {SubSeq(FileData, 1, n) : n \in (Len(FileData) - 2)..Len(FileData)}

CompressedHeader == Xor32(DB_CHUNK_HEADER, CHUNK_COMPRESSED)

ChunkOf(type, payload) == Pack(type) \o Pack(PyInt(Len(payload))) \o payload

\* The sessions of the model, <<archive, version>>: the header compressed and
\* scrambled for the version that reads it, compressed only, plain, empty,
\* and behind the DATA chunk.
Sessions ==
    {<<ChunkOf(CompressedHeader, encrypt(XRScrambler(CC_RU), TableLz))
         \o ChunkOf(DB_CHUNK_DATA, d), DB_VERSION_2947RU>> : d \in FileDatas}
    \cup {<<ChunkOf(CompressedHeader, encrypt(XRScrambler(CC_WW), TableLz))
              \o ChunkOf(DB_CHUNK_DATA, d), DB_VERSION_2947WW>> : d \in FileDatas}
    \cup {<<ChunkOf(CompressedHeader, TableLz) \o ChunkOf(DB_CHUNK_DATA, FileData), v>> :
            v \in {DB_VERSION_1114, DB_VERSION_2215, DB_VERSION_2945, DB_VERSION_XDB}}
    \cup {<<ChunkOf(DB_CHUNK_HEADER, Table) \o ChunkOf(DB_CHUNK_DATA, FileData), v>> :
            v \in DbVersions}
    \cup {<<ChunkOf(DB_CHUNK_HEADER, <<>>) \o ChunkOf(DB_CHUNK_DATA, FileData), v>> :
            v \in DbVersions}
    \cup {<<ChunkOf(DB_CHUNK_DATA, FileData) \o ChunkOf(DB_CHUNK_HEADER, Table), v>> :
            v \in DbVersions}

NewFileGen == [pc |-> "none", branch |-> "none", out |-> <<>>, err |-> None]

SessionInit ==
    /\ xr \in {XRReader(s[1], s[2]) : s \in Sessions}
    /\ cgen = <<>>
    /\ fgen = [g \in 1..MaxGens |-> NewFileGen]
    /\ unscr = <<>>
    /\ completed = <<>>
    /\ fetch = <<>>
    /\ CursorIdle
    /\ EntryIdle

\* db_reader.iter_files(): the generator object is created, its body not entered.
IterFiles(g) ==
    /\ fgen[g].pc = "none"
    /\ fgen' = [fgen EXCEPT ![g].pc = "created"]
    /\ UNCHANGED <<xr, cgen, unscr, completed, fetch, fop, cursorVars>>

\* next() on generator g, the resumption having returned n
Resumed(g, n) ==
    /\ xr' = n.x
    /\ fgen' = [fgen EXCEPT ![g] =
                   [pc |-> n.pc,
                    branch |-> IF n.branch = "same" THEN fgen[g].branch ELSE n.branch,
                    out |-> IF n.pc = "yielded" THEN Append(fgen[g].out, n.entry)
                            ELSE fgen[g].out,
                    err |-> n.err]]
    /\ unscr' = unscr \o n.calls
    /\ completed' = IF n.pc = "done" THEN Append(completed, fgen[g].out) ELSE completed

\* next() on generator g.
NextFile(g) ==
    /\ fgen[g].pc \in {"created", "yielded"}
    /\ Resumed(g, iter_files_next(xr, fgen[g].pc))
    /\ UNCHANGED <<cgen, fetch, fop, cursorVars>>

\* get_data on the k-th entry generator g has yielded: f.get_data() for a
\* FileOrPath_1114, which reads on from the header reader, f.get_data(db_reader)
\* for the others.
Fetched1114(e, r) ==
    /\ xr' = [xr EXCEPT !.header = <<r.sr>>]
    /\ fetch' = <<[entry |-> e, before |-> xr.header[1].pos, after |-> r.sr.pos,
                   err |-> r.err, ret |-> r.ret]>>

Fetched(e, r) ==
    /\ xr' = xr
    /\ fetch' = <<[entry |-> e, before |-> 0, after |-> 0, err |-> r.err, ret |-> r.ret]>>

GetData(g, k) ==
    /\ k \in 1..Len(fgen[g].out)
    /\ IF xr.version = DB_VERSION_1114
       THEN Fetched1114(fgen[g].out[k],
                        FileOrPath_1114_get_data(fgen[g].out[k], xr.header[1]))
       ELSE Fetched(fgen[g].out[k], FileOrPath_get_data(fgen[g].out[k], xr.buff))
    /\ UNCHANGED <<cgen, fgen, unscr, completed, fop, cursorVars>>

SessionNext ==
    \/ \E g \in 1..MaxGens : IterFiles(g)
    \/ \E g \in 1..MaxGens : NextFile(g)
    \/ \E g \in 1..MaxGens, k \in 1..Len(Table) : GetData(g, k)

SpecSession == SessionInit /\ [][SessionNext]_vars

\* -------------------------------------------------------------- entry spec
\* One SequensorReader over a decoded V1114 header, where a record's file
\* data follows the record, and the FileOrPath_1114 objects built from it.

\* name + b'\0' + struct.pack('<III', size_real, offset, size_compressed): a
\* record as FileOrPath_1114 reads it
Record1114(name, size_real, offset, size_compressed) ==
    name \o <<0>> \o Pack(size_real) \o Pack(offset) \o Pack(size_compressed)

\* The LZHUF stream of the two bytes "hi".
StreamHi == <<2, 0, 0, 0, 250, 125, 64>>

\* What follows the first record: the stream, whole or cut, and a second record.
Entry1114Data ==
    {StreamHi, SubSeq(StreamHi, 1, 2),
     StreamHi \o Record1114(NameB, PyInt(1), PyInt(1), PyInt(0))}

\* The sizes the first record declares: nothing, less than the stream, the
\* stream, more than is there, and 2^32 - 1.
Entry1114Sizes ==
    {PyInt(0), PyInt(2), PyInt(Len(StreamHi)), PyInt(Len(StreamHi) + 1),
     [b31 |-> 1, low |-> 2147483647]}

Entry1114Buffers ==
    {Record1114(NameA, size_real, offset, size_compressed) \o d :
        size_real \in {PyInt(0), PyInt(2)}, offset \in {PyInt(0), PyInt(1)},
        size_compressed \in Entry1114Sizes, d \in Entry1114Data}

Entry1114Init ==
    /\ sr \in {SequensorReader(b) : b \in Entry1114Buffers}
    /\ last = <<>>
    /\ skipped = FALSE
    /\ fop = <<>>
    /\ fetch = <<>>
    /\ xr = <<>>
    /\ cgen = <<>>
    /\ fgen = <<>>
    /\ unscr = <<>>
    /\ completed = <<>>

\* f_type(sr) as the loop of iter_files calls it (while sr.remain), the
\* constructor having returned e
Built1114(e) ==
    /\ sr' = e.sr
    /\ fop' = IF e.err = None THEN <<e.entry>> ELSE <<>>

NewFileOrPath1114 ==
    /\ remain(sr) # 0
    /\ Built1114(FileOrPath_1114(sr))
    /\ UNCHANGED <<last, skipped, fetch, xr, cgen, fgen, unscr, completed>>

\* f.get_data() on the entry last built, the call having returned r
Fetched1114Live(r) ==
    /\ sr' = r.sr
    /\ fetch' = <<[entry |-> fop[1], before |-> sr.pos, after |-> r.sr.pos,
                   err |-> r.err, ret |-> r.ret]>>

GetData1114 ==
    /\ fop # <<>>
    /\ Fetched1114Live(FileOrPath_1114_get_data(fop[1], sr))
    /\ UNCHANGED <<last, skipped, fop, xr, cgen, fgen, unscr, completed>>

Entry1114Next == NewFileOrPath1114 \/ GetData1114

SpecEntry1114 == Entry1114Init /\ [][Entry1114Next]_vars

\* ------------------------------------------------------------- record spec
\* One SequensorReader over a decoded header, as iter_files makes it: over the
\* bytes LzHuf.Decode returned, or over the memoryview slice of a header chunk
\* that is not compressed.  last is [op, version, before, err]: the version of
\* the archive and the last f_type(sr) call.

Record2215(name, size_real, offset, size_compressed) ==
    name \o <<0>> \o Pack(offset) \o Pack(size_real) \o Pack(size_compressed)

Record2945(name, size_real, offset, size_compressed, crc) ==
    name \o <<0>> \o Pack(crc) \o Pack(offset) \o Pack(size_real) \o Pack(size_compressed)

\* struct.pack('<HIII', len(name) + 16, size_real, size_compressed, crc) + name
\* + struct.pack('<I', offset), for 32-bit field values
Record2947Of(name, size_real, size_compressed, crc, offset) ==
    SubSeq(Pack(PyInt(Len(name) + 16)), 1, 2) \o Pack(size_real)
    \o Pack(size_compressed) \o Pack(crc) \o name \o Pack(offset)

\* <<size_real, offset, size_compressed, crc>> of the records of the model
RecordFields ==
    {<<PyInt(1), PyInt(2), PyInt(3), PyInt(4)>>,
     <<PyInt(3), PyInt(0), PyInt(2), PyInt(1)>>,
     <<PyInt(258), [b31 |-> 1, low |-> 5], PyInt(66000), PyInt(0)>>}

\* A record of the version's layout.
RecordOf(version, name, f) ==
    CASE version = DB_VERSION_1114 -> Record1114(name, f[1], f[2], f[3])
      [] version = DB_VERSION_2215 -> Record2215(name, f[1], f[2], f[3])
      [] version = DB_VERSION_2945 -> Record2945(name, f[1], f[2], f[3], f[4])
      [] OTHER -> Record2947Of(name, f[1], f[3], f[4], f[2])

RecordsOf(version) == {RecordOf(version, name, f) : name \in {NameA, NameDir}, f \in RecordFields}

\* Decoded headers of one record and of two.
RecordBuffers(version) ==
    RecordsOf(version)
    \cup {a \o RecordOf(version, NameB, <<PyInt(7), PyInt(9), PyInt(7), PyInt(5)>>) :
            a \in RecordsOf(version)}

RecordInit ==
    /\ \E version \in DbVersions \ {DB_VERSION_AUTO} :
          /\ sr \in {SequensorReader(b) : b \in RecordBuffers(version)}
                    \cup {SequensorReaderOfView(b) : b \in RecordBuffers(version)}
          /\ last = [op |-> "none", version |-> version, before |-> 0, err |-> None]
    /\ skipped = FALSE
    /\ ArchiveIdle

\* yield f_type(sr), the constructor having returned e
BuiltRecord(e) ==
    /\ sr' = e.sr
    /\ fop' = IF e.err = None THEN <<e.entry>> ELSE <<>>
    /\ last' = [op |-> "f_type", version |-> last.version, before |-> sr.pos, err |-> e.err]

\* One turn of while sr.remain: yield f_type(sr); the loop ends with the
\* exception a constructor raises.
NewFileOrPath ==
    /\ last.err = None
    /\ remain(sr) # 0
    /\ BuiltRecord(FileOrPathOfVersion(last.version, sr))
    /\ UNCHANGED <<skipped, xr, cgen, fgen, unscr, completed, fetch>>

RecordNext == NewFileOrPath

SpecRecord == RecordInit /\ [][RecordNext]_vars

\* --------------------------------------------------------------- find spec
\* One XRReader over an archive buffer and the find_chunk calls made on it.
\* last is the last call: [op, type, err, chunk, found].

FindInit ==
    /\ xr \in {XRReader(b, DB_VERSION_XDB) : b \in ArchiveBuffers}
    /\ last = [op |-> "none", type |-> DB_CHUNK_DATA, err |-> None,
               chunk |-> NoChunk, found |-> FALSE]
    /\ sr = <<>>
    /\ skipped = FALSE
    /\ cgen = <<>>
    /\ SessionIdle
    /\ EntryIdle

\* find_chunk(_type) having returned f
FoundChunk(type, f) ==
    /\ xr' = [xr EXCEPT !.pos = f.sr.pos]
    /\ last' = [op |-> "find_chunk", type |-> type, err |-> f.err,
                chunk |-> f.chunk, found |-> f.found]

\* db_reader.find_chunk(_type)
FindChunk(type) ==
    /\ FoundChunk(type, find_chunk(ArchiveSR, type))
    /\ UNCHANGED <<sr, skipped, cgen, sessionVars, fop>>

FindSpecNext ==
    \E type \in {DB_CHUNK_DATA, DB_CHUNK_HEADER, DB_CHUNK_USERDATA} : FindChunk(type)

SpecFind == FindInit /\ [][FindSpecNext]_vars

\* ------------------------------------------------------------- ChunkReader
\* ChunkReader(buff): self.sr, a SequensorReader over buff.
ChunkReader(buff) == SequensorReader(buff)

\* self.sr.read_bytes(size) with the 32-bit size just read: buff[pos:pos+size]
\* has size bytes only when they all lie in the buffer.
read_bytes_of(s, size) ==
    IF size.b31 = 1 \/ size.low > Len(s.buff)
    THEN Raise(s, "OutOfBoundException")
    ELSE read_bytes(s, size.low, TRUE)

\* One resumption of the generator ChunkReader.iter() returns:
\* [sr, pc, out, err], out holding the triple yielded, if any.
IterEnd(s, pc, e) == [sr |-> s, pc |-> pc, out |-> <<>>, err |-> e]

\* yield type, size, self.sr.read_bytes(size)
IterYield(h, p) ==
    IF p.err # None THEN IterEnd(p.sr, "raised", p.err)
    ELSE [sr |-> p.sr, pc |-> "yielded",
          out |-> <<[type |-> h.ret[1], size |-> h.ret[2], payload |-> p.ret]>>,
          err |-> None]

\* type, size = self.sr.read('II')
IterBody(h) ==
    IF h.err # None THEN IterEnd(h.sr, "raised", h.err)
    ELSE IterYield(h, read_bytes_of(h.sr, h.ret[2]))

\* while self.sr.pos < len(self.sr.buff)
IterLoop(s) ==
    IF s.pos < Len(s.buff) THEN IterBody(read(s, <<"I", "I">>))
    ELSE IterEnd(s, "done", None)

\* iter() entered without self.sr.pos = 0.
iter_on(s, pc) == IterLoop(s)

\* next() on the generator at pc: the first one enters the body, which
\* starts with self.sr.pos = 0.
iter(s, pc) == IterLoop(IF pc = "created" THEN [s EXCEPT !.pos = 0] ELSE s)

\* ------------------------------------------------------------- reader spec
\* One ChunkReader over a buffer; its consumer starts an enumeration with
\* iter(), resumes it step by step, and may start another one, dropping the
\* generator it held.

MaxEnums == 2

NoEnum == [pc |-> "none", out |-> <<>>, err |-> None]

ReaderInit ==
    /\ sr \in {ChunkReader(b) : b \in ArchiveBuffers}
    /\ cgen = NoEnum
    /\ completed = <<>>
    /\ last = <<>>
    /\ skipped = FALSE
    /\ xr = <<>>
    /\ fgen = <<>>
    /\ unscr = <<>>
    /\ fetch = <<>>
    /\ EntryIdle

\* g = reader.iter(): the generator object is created, its body not entered.
Iter ==
    /\ Len(completed) < MaxEnums
    /\ cgen.pc # "created"
    /\ cgen' = [NoEnum EXCEPT !.pc = "created"]
    /\ UNCHANGED <<sr, last, skipped, xr, fgen, unscr, completed, fetch, fop>>

Resumed13(n) ==
    /\ sr' = n.sr
    /\ cgen' = [pc |-> n.pc, out |-> cgen.out \o n.out, err |-> n.err]
    /\ completed' = IF n.pc = "yielded" THEN completed
                    ELSE Append(completed, [out |-> cgen.out, err |-> n.err])

\* next(g)
NextTriple ==
    /\ cgen.pc \in {"created", "yielded"}
    /\ Resumed13(iter(sr, cgen.pc))
    /\ UNCHANGED <<last, skipped, xr, fgen, unscr, fetch, fop>>

ReaderNext == Iter \/ NextTriple

SpecReader == ReaderInit /\ [][ReaderNext]_vars

\* ----------------------------------------------------------- DbFileVersion
\* A str is the sequence of its characters, each a string of length one.

\* None where a str is expected: a value no str equals.
NoStr == <<None>>

\* class DbFileVersion: FILE_VERSIONS
FILE_VERSIONS ==
    (<<"1", "1", "x", "x">> :> DB_VERSION_1114)
    @@ (<<"2", "2", "1", "5">> :> DB_VERSION_2215)
    @@ (<<"2", "9", "4", "5">> :> DB_VERSION_2945)
    @@ (<<"2", "9", "4", "7", "r", "u">> :> DB_VERSION_2947RU)
    @@ (<<"2", "9", "4", "7", "w", "w">> :> DB_VERSION_2947WW)
    @@ (<<"x", "d", "b">> :> DB_VERSION_XDB)

\* str.isalnum() on one character, for the characters the model uses.
isalnum(c) == c \in {"x", "d", "b", "r", "p", "g", "3"}

\* str.startswith(prefix)
startswith(s, prefix) == Len(s) >= Len(prefix) /\ SubSeq(s, 1, Len(prefix)) = prefix

\* name.rfind('.'): the 0-based index of the last '.', or -1.
rfind_dot(name) ==
    LET S == {i \in 0..(Len(name) - 1) : name[i + 1] = "."}
    IN  IF S = {} THEN -1 ELSE CHOOSE i \in S : \A j \in S : j <= i

\* pathlib's PurePath.suffix on the final path component:
\* i = name.rfind('.'); name[i:] if 0 < i < len(name) - 1 else ''
suffix(name) ==
    LET i == rfind_dot(name)
    IN  IF 0 < i /\ i < Len(name) - 1 THEN SubSeq(name, i + 1, Len(name)) ELSE <<>>

\* get_version_by_name(version_name): [err, ret].  None and '' are falsy.
get_version_by_name(version_name) ==
    IF version_name = NoStr \/ version_name = <<>>
    THEN [err |-> None, ret |-> DB_VERSION_AUTO]
    ELSE IF version_name \in DOMAIN FILE_VERSIONS
    THEN [err |-> None, ret |-> FILE_VERSIONS[version_name]]
    ELSE [err |-> "KeyError", ret |-> None]

\* The three patterns without the tests of the last character.
BySuffixLoose(version, file_ext) ==
    IF Len(file_ext) = 5 /\ startswith(file_ext, <<".", "x", "d", "b">>)
    THEN DB_VERSION_XDB
    ELSE IF file_ext = <<".", "x", "r", "p">>
    THEN DB_VERSION_1114
    ELSE IF Len(file_ext) = 4 /\ startswith(file_ext, <<".", "x", "p">>)
    THEN DB_VERSION_2215
    ELSE version

\* "try to define file version by extention", from the version found by name
BySuffix(version, file_ext) ==
    IF Len(file_ext) = 5 /\ startswith(file_ext, <<".", "x", "d", "b">>) /\ isalnum(file_ext[5])
    THEN DB_VERSION_XDB
    ELSE IF file_ext = <<".", "x", "r", "p">>
    THEN DB_VERSION_1114
    ELSE IF Len(file_ext) = 4 /\ startswith(file_ext, <<".", "x", "p">>) /\ isalnum(file_ext[4])
    THEN DB_VERSION_2215
    ELSE version

\* "check defined version"
Checked(version) ==
    IF version = DB_VERSION_AUTO \/ BitAnd(version, version - 1) # 0
    THEN [err |-> "UnspecifiedDbFormat", ret |-> None]
    ELSE [err |-> None, ret |-> version]

\* The body of get_version_by_file_name after the lookup by name, n
Resolved(file_name, n) ==
    IF n.err # None THEN n
    ELSE Checked(IF n.ret = DB_VERSION_AUTO THEN BySuffix(n.ret, suffix(file_name))
                 ELSE n.ret)

get_version_by_file_name(file_name, version_name) ==
    Resolved(file_name, get_version_by_name(version_name))

\* ------------------------------------------------------------ version spec
\* One call of get_version_by_file_name, as XRReader.__init__ makes it, for a
\* file name and the version name the caller gave (None when it gave none).

MaxTail == 4

NameChars == {".", "x", "d", "b", "r", "p", "3", "_"}

RECURSIVE Strings(_, _)
Strings(S, n) ==
    IF n = 0 THEN {<<>>}
    ELSE LET P == Strings(S, n - 1)
         IN  P \cup {Append(p, c) : p \in {q \in P : Len(q) = n - 1}, c \in S}

\* File names: a beginning with or without a dot, then up to MaxTail characters.
Stems == {<<>>, <<".">>, <<"g">>, <<"g", ".">>, <<"g", ".", "x">>}

FileNames == {stem \o e : stem \in Stems, e \in Strings(NameChars, MaxTail)}

\* The names of the six versions, one that names no version, '' and None.
VersionNames == DOMAIN FILE_VERSIONS \cup {<<"2", "9", "4", "7">>, <<>>, NoStr}

\* The file names tried with an explicit version name.
NamedFiles ==
    {<<"g", ".", "d", "b">>, <<"g", ".", "x", "r", "p">>, <<"g", ".", "x", "p", "3">>,
     <<"g", ".", "x", "d", "b", "3">>, <<"g">>}

VersionInit ==
    /\ \E file_name \in FileNames, version_name \in VersionNames :
          /\ version_name \in {<<>>, NoStr} \/ file_name \in NamedFiles
          /\ last = [op |-> "none", file_name |-> file_name,
                     version_name |-> version_name, err |-> None, ret |-> None]
    /\ sr = <<>>
    /\ skipped = FALSE
    /\ ArchiveIdle

Versioned(v) ==
    last' = [last EXCEPT !.op = "get_version_by_file_name", !.err = v.err, !.ret = v.ret]

GetVersion ==
    /\ last.op = "none"
    /\ Versioned(get_version_by_file_name(last.file_name, last.version_name))
    /\ UNCHANGED <<sr, skipped, archiveVars>>

VersionNext == GetVersion

SpecVersion == VersionInit /\ [][VersionNext]_vars

\* -------------------------------------------------------------- sbox spec
\* XRScrambler(config)._init_sboxes turn by turn.  xr is the state of the
\* call: [config, pc, seed, i, a, b, m_enc_sbox, m_dec_sbox], i the turns of
\* the scramble loop done, a and b the indices the last turn exchanged,
\* m_dec_sbox <<>> until the loop that creates it has run.

Configs == {CC_RU, CC_WW}

SEED0(config) == IF config = CC_RU THEN SEED0_RU ELSE SEED0_WW

SIZE_MULT(config) == IF config = CC_RU THEN SIZE_MULT_RU ELSE SIZE_MULT_WW

\* m_enc_sbox[i] = i & 0xff for every i
Sequential == [i \in 0..(SBOX_SIZE - 1) |-> i % 256]

SboxInit ==
    /\ \E config \in Configs :
          xr = [config |-> config, pc |-> "scramble", seed |-> SEED0(config), i |-> 0,
                a |-> 0, b |-> 0, m_enc_sbox |-> Sequential, m_dec_sbox |-> <<>>]
    /\ CursorIdle
    /\ cgen = <<>>
    /\ SessionIdle
    /\ EntryIdle

\* One turn of "for i in range(size_mult * self.SBOX_SIZE, 0, -1)", d the
\* indices drawn
Scrambled(d) ==
    xr' = [xr EXCEPT !.seed = d.seed, !.i = xr.i + 1, !.a = d.a, !.b = d.b,
                     !.m_enc_sbox = Swap(xr.m_enc_sbox, d).box]

ScrambleTurn ==
    /\ xr.pc = "scramble"
    /\ xr.i < SIZE_MULT(xr.config) * SBOX_SIZE
    /\ Scrambled(DrawA(NextSeedSigned(xr.seed)))
    /\ UNCHANGED <<cursorVars, cgen, sessionVars, fop>>

\* "Create decryption sbox" and the assignment of both boxes to self
CreateDec ==
    /\ xr.pc = "scramble"
    /\ xr.i = SIZE_MULT(xr.config) * SBOX_SIZE
    /\ xr' = [xr EXCEPT !.pc = "built", !.m_dec_sbox = Inverted(xr.m_enc_sbox).dec]
    /\ UNCHANGED <<cursorVars, cgen, sessionVars, fop>>

SboxNext == ScrambleTurn \/ CreateDec

SpecSbox == SboxInit /\ [][SboxNext]_vars

\* ---------------------------------------------------------- scrambler spec
\* One XRScrambler and the encrypt and decrypt calls made on it.  xr is
\* [config, self], self the object; completed the calls made, in order, each
\* [op, src, ret]; last the last call, with plain = <<x>> when its src is
\* what the call before it, encrypt(x), returned.

MaxCalls == 3
MaxSrc == 2

\* Byte sequences: every byte value at every position up to MaxSrc.
Srcs ==
    {<<>>} \cup {[i \in 1..n |-> PayloadByte] \o <<b>> : n \in 0..(MaxSrc - 1), b \in 0..255}

\* The arguments of the calls after the first.
LaterSrcs == {<<>>, <<PayloadByte>>, <<PayloadByte, 0>>}

ScramblerInit ==
    /\ \E config \in Configs : xr = [config |-> config, self |-> XRScrambler(config)]
    /\ completed = <<>>
    /\ last = [op |-> "none", src |-> <<>>, ret |-> <<>>, plain |-> <<>>]
    /\ sr = <<>>
    /\ skipped = FALSE
    /\ cgen = <<>>
    /\ fgen = <<>>
    /\ unscr = <<>>
    /\ fetch = <<>>
    /\ EntryIdle

\* The call leaves self with the seed moved on.
CalledReseeded(self, ret) == [self |-> [self EXCEPT !.m_seed = self.m_seed + Len(ret)], ret |-> ret]

\* What a call leaves: encrypt and decrypt assign no attribute of self, and
\* return dest.
Called(self, ret) == [self |-> self, ret |-> ret]

\* self.encrypt(src) or self.decrypt(src)
Apply(op, self, src) ==
    Called(self, IF op = "encrypt" THEN encrypt(self, src) ELSE decrypt(self, src))

Applied(op, src, plain, r) ==
    /\ xr' = [xr EXCEPT !.self = r.self]
    /\ last' = [op |-> op, src |-> src, ret |-> r.ret, plain |-> plain]
    /\ completed' = Append(completed, [op |-> op, src |-> src, ret |-> r.ret])

CallOn(op, src, plain) ==
    /\ Len(completed) < MaxCalls
    /\ Applied(op, src, plain, Apply(op, xr.self, src))
    /\ UNCHANGED <<sr, skipped, cgen, fgen, unscr, fetch, fop>>

\* The first call takes any argument; after a first call on one of LaterSrcs
\* the later ones take those, after another they repeat or decrypt.
Argument(src) ==
    \/ completed = <<>>
    \/ completed # <<>> /\ src \in LaterSrcs /\ completed[1].src \in LaterSrcs

Encrypt(src) == Argument(src) /\ CallOn("encrypt", src, <<>>)

Decrypt(src) == Argument(src) /\ CallOn("decrypt", src, <<>>)

\* decrypt(encrypt(x))
DecryptEncrypted == last.op = "encrypt" /\ CallOn("decrypt", last.ret, <<last.src>>)

\* A call made before, made again.
Again(i) == CallOn(completed[i].op, completed[i].src, <<>>)

ScramblerNext ==
    \/ \E src \in Srcs : Encrypt(src)
    \/ \E src \in Srcs : Decrypt(src)
    \/ DecryptEncrypted
    \/ \E i \in DOMAIN completed : Again(i)

SpecScrambler == ScramblerInit /\ [][ScramblerNext]_vars

\* ------------------------------------------------------------ decoder spec
\* One LzHuf object, xr, and one Decode call on it; last is the call:
\* [op, code, err, ret].

MaxText == 3
MaxCode == 2

\* Stream bytes: in the starting tree 0 and 24 begin a literal, 192 a match
\* of 55 bytes, and 150 after a literal a match of 13 bytes that copies it.
StreamBytes == {0, 24, 150, 192}

\* Codes of four bytes and more: a declared length and a stream.
Codes == {Pack(PyInt(n)) \o s : n \in 0..MaxText, s \in Strings(StreamBytes, MaxCode)}

\* Codes of fewer than four bytes.
ShortCodes == Strings({0, 1}, 3)

DecoderInit ==
    /\ xr = LzHuf
    /\ \E code \in Codes \cup ShortCodes :
          last = [op |-> "none", code |-> code, err |-> None, ret |-> <<>>]
    /\ sr = <<>>
    /\ skipped = FALSE
    /\ cgen = <<>>
    /\ SessionIdle
    /\ EntryIdle

Decoded(d) ==
    /\ xr' = d.self
    /\ last' = [last EXCEPT !.op = "Decode", !.err = d.err, !.ret = d.ret]

\* LzHuf().Decode(code)
DecodeCall ==
    /\ last.op = "none"
    /\ Decoded(Decode(xr, PyBytes(last.code)))
    /\ UNCHANGED <<sr, skipped, cgen, sessionVars, fop>>

DecoderNext == DecodeCall

SpecDecoder == DecoderInit /\ [][DecoderNext]_vars

\* -------------------------------------------------------------- reuse spec
\* One LzHuf object, xr, and the Decode calls made on it one after another;
\* last is the last call, [op, code, err, ret, used], used the number of
\* Decode calls the object has served; completed the codes decoded, in order.

MaxDecodes == 2

\* Codes: a declared length and a stream.  In the starting tree 24, 127 and
\* 254 begin a literal and 192 a match of 55 bytes; 255 252 after it is the
\* position 4095 and 0 0 the position 0.
ReuseCodes ==
    {Pack(PyInt(0)),
     Pack(PyInt(1)) \o <<24>>,
     Pack(PyInt(1)) \o <<192>>,
     Pack(PyInt(2)) \o <<254>>,
     Pack(PyInt(2)) \o <<0, 150>>,
     Pack(PyInt(2)) \o <<192, 0, 0>>,
     Pack(PyInt(2)) \o <<192, 255, 252>>,
     Pack(PyInt(3)),
     Pack(PyInt(3)) \o <<24, 150>>,
     Pack(PyInt(3)) \o <<24, 127, 128>>,
     Pack(PyInt(3)) \o <<192, 255, 0>>}

ReuseInit ==
    /\ xr = LzHuf
    /\ last = [op |-> "none", code |-> <<>>, err |-> None, ret |-> <<>>, used |-> 0]
    /\ sr = <<>>
    /\ skipped = FALSE
    /\ cgen = <<>>
    /\ fgen = <<>>
    /\ unscr = <<>>
    /\ completed = <<>>
    /\ fetch = <<>>
    /\ EntryIdle

DecodedOn(code, d) ==
    /\ xr' = d.self
    /\ last' = [op |-> "Decode", code |-> code, err |-> d.err, ret |-> d.ret,
                used |-> last.used + 1]
    /\ completed' = Append(completed, code)

\* self.Decode(code) on the object as the calls before have left it
DecodeOn(code) ==
    /\ last.used < MaxDecodes
    /\ DecodedOn(code, Decode(xr, PyBytes(code)))
    /\ UNCHANGED <<sr, skipped, cgen, fgen, unscr, fetch, fop>>

ReuseNext == \E code \in ReuseCodes : DecodeOn(code)

SpecReuse == ReuseInit /\ [][ReuseNext]_vars

\* --------------------------------------------------------------- turn spec
\* The main loop of one Decode call on a fresh decoder, turn by turn.  xr is
\* the decoder object; last holds the locals r, count and i of Decode and
\* what the last turn did: the symbol c, for a match the byte b GetByte
\* returned, the position p, the offset o in the stream, in bits, where
\* DecodePosition began and whether the stream still held bytes when it
\* ended (full), and r, m_dest_pos, m_dest_limit, text_buf and m_dest as
\* they were before the turn (rb, posb, limitb, ring, dest).

MaxStream == 2

\* The declared lengths of the codes.
TurnSizes == {1, 3, 14}

TurnCodes ==
    {Pack(PyInt(n)) \o s : n \in TurnSizes, s \in Strings(StreamBytes, MaxStream)}
    \cup {Pack(PyInt(8)) \o <<24, 0, 143, 0, 128>>, Pack(PyInt(2)) \o <<192, 255, 252, 0, 0>>,
          Pack(PyInt(3)) \o <<150, 77, 200, 9, 0>>}

\* Decode up to the while loop, on a decoder just constructed.
LoopEntry(code) ==
    DecodeSpaces(StartHuff(DecodeBegin(LzHuf, code, Unpack(SubSeq(code, 1, 4)).low)))

TurnInit ==
    /\ \E code \in TurnCodes :
          /\ xr = LoopEntry(code)
          /\ last = [op |-> "entry", code |-> code, r |-> N - F, count |-> 0, i |-> 0,
                     c |-> 0, b |-> 0, p |-> 0, o |-> 0, full |-> FALSE,
                     rb |-> 0, posb |-> 0, limitb |-> 0, ring |-> <<>>, dest |-> <<>>,
                     ret |-> <<>>]
    /\ sr = <<>>
    /\ skipped = FALSE
    /\ cgen = <<>>
    /\ SessionIdle
    /\ EntryIdle

\* The locals of Decode with the decoder h
Locals(h) == [h |-> h, r |-> last.r, count |-> last.count, i |-> last.i]

\* The turn has left st, after symbol c and, for a match, byte b, position
\* p.pos read from bit o on.
Turned(op, c, b, p, o, st) ==
    /\ xr' = st.h
    /\ last' = [op |-> op, code |-> last.code, r |-> st.r, count |-> st.count, i |-> st.i,
                c |-> c, b |-> b, p |-> p, o |-> o,
                full |-> st.h.m_src_pos < st.h.m_src_limit,
                rb |-> last.r, posb |-> xr.m_dest_pos, limitb |-> xr.m_dest_limit,
                ring |-> xr.text_buf, dest |-> xr.m_dest, ret |-> <<>>]

\* if c < 256: the literal
LiteralOf(d) == d.c < 256 /\ Turned("literal", d.c, 0, 0, 0, Emit(Locals(d.h), d.c))

\* The bits of the stream read so far
BitsRead(h) == 8 * (h.m_src_pos - 4) - h.getlen

\* else: DecodePosition, GetByte having returned gb and the position pp
MatchAt(d, gb, pp) ==
    Turned("match", d.c, gb.i, pp.pos, BitsRead(d.h), Match(Locals(d.h), d.c, pp))

MatchFrom(d, gb) == MatchAt(d, gb, PositionFrom(gb))

MatchOf(d) == d.c >= 256 /\ MatchFrom(d, GetByte(d.h))

\* One turn of while count < self.textsize that decodes a literal
LiteralTurn ==
    /\ last.op # "return"
    /\ last.count < xr.textsize
    /\ LiteralOf(DecodeChar(xr))
    /\ UNCHANGED <<sr, skipped, cgen, sessionVars, fop>>

\* One turn that decodes a match
MatchTurn ==
    /\ last.op # "return"
    /\ last.count < xr.textsize
    /\ MatchOf(DecodeChar(xr))
    /\ UNCHANGED <<sr, skipped, cgen, sessionVars, fop>>

\* The loop is over: return bytes(self.m_dest[:self.textsize])
ReturnDest ==
    /\ last.op # "return"
    /\ ~(last.count < xr.textsize)
    /\ last' = [last EXCEPT !.op = "return", !.ret = DecodeReturn(xr).ret]
    /\ UNCHANGED <<xr, sr, skipped, cgen, sessionVars, fop>>

TurnNext == LiteralTurn \/ MatchTurn \/ ReturnDest

SpecTurn == TurnInit /\ [][TurnNext]_vars

\* --------------------------------------------------------------- tree spec
\* The adaptive Huffman tree of one Decode call, update by update.  xr holds
\* the fields of the decoder that DecodeChar and update read or write.  A
\* behaviour follows one schedule, chosen at the start: either DecodeChar
\* reads the symbols from the stream of the code (zero bits past its end),
\* or update is called with the symbols (a * n + b) % N_CHAR for n = 0, 1,
\* .., as DecodeChar does for a stream that encodes them.  A behaviour
\* starts at the while loop of Decode on a fresh object, or after the first
\* WarmUpdates updates of its schedule, shortly before the root frequency
\* reaches MAX_FREQ.  last holds the number n of updates done, the symbol c
\* of the last one, whether it ran reconst and, if so, the tables before
\* the update (before) and as reconst left them (mid).

MaxUpdates == 100

WarmUpdates == 16000

TreeStreams == {<<>>, <<255, 255, 255>>}

\* The strides a and offsets b of the symbol schedules.
TreeStrides == {<<1, 0>>, <<0, 313>>, <<7, 5>>}

Schedules ==
    {[mode |-> "DecodeChar", code |-> Pack(PyInt(1)) \o s, a |-> 0, b |-> 0] : s \in TreeStreams}
    \cup {[mode |-> "update", code |-> Pack(PyInt(1)), a |-> ab[1], b |-> ab[2]] : ab \in TreeStrides}

\* The symbol of update n of the schedule
Symbol(sched, n) == (sched.a * n + sched.b) % N_CHAR

\* The tables of the decoder h
Tables(h) == [freq |-> h.freq, son |-> h.son, prnt |-> h.prnt]

NoTables == [freq |-> <<>>, son |-> <<>>, prnt |-> <<>>]

\* The fields of the decoder h that DecodeChar and update use.
TreeFields(h) ==
    [freq |-> h.freq, son |-> h.son, prnt |-> h.prnt,
     getbuf |-> h.getbuf, getlen |-> h.getlen,
     m_src |-> h.m_src, m_src_pos |-> h.m_src_pos, m_src_limit |-> h.m_src_limit]

\* Update n of the schedule st.sched on the decoder st.h
Scheduled(st, n) ==
    [st EXCEPT !.h = IF st.sched.mode = "update" THEN update(st.h, Symbol(st.sched, n))
                     ELSE DecodeChar(st.h).h]

\* The decoder after the first n updates of the schedule
Warmed(sched, n) ==
    For(Scheduled, [h |-> TreeFields(LoopEntry(sched.code)), sched |-> sched], 0, n).h

TreeInit ==
    /\ \E sched \in Schedules, n \in {0, WarmUpdates} :
          /\ xr = Warmed(sched, n)
          /\ last = [op |-> "start", sched |-> sched, first |-> n, n |-> n, c |-> 0,
                     rebuilt |-> FALSE, before |-> NoTables, mid |-> NoTables]
    /\ sr = <<>>
    /\ skipped = FALSE
    /\ cgen = <<>>
    /\ SessionIdle
    /\ EntryIdle

\* Update c has left the decoder h.
Updated(op, c, h) ==
    /\ xr' = h
    /\ last' = [op |-> op, sched |-> last.sched, first |-> last.first, n |-> last.n + 1,
                c |-> c, rebuilt |-> xr.freq[R] = MAX_FREQ,
                before |-> IF xr.freq[R] = MAX_FREQ THEN Tables(xr) ELSE NoTables,
                mid |-> IF xr.freq[R] = MAX_FREQ THEN Tables(reconst(xr)) ELSE NoTables]

\* self.update(c)
Update(c) ==
    /\ last.sched.mode = "update"
    /\ last.n < last.first + MaxUpdates
    /\ c = Symbol(last.sched, last.n)
    /\ Updated("update", c, update(xr, c))
    /\ UNCHANGED <<sr, skipped, cgen, sessionVars, fop>>

CharOf(d) == Updated("DecodeChar", d.c, d.h)

\* c = self.DecodeChar()
Char ==
    /\ last.sched.mode = "DecodeChar"
    /\ last.n < last.first + MaxUpdates
    /\ CharOf(DecodeChar(xr))
    /\ UNCHANGED <<sr, skipped, cgen, sessionVars, fop>>

TreeNext == (\E c \in 0..(N_CHAR - 1) : Update(c)) \/ Char

SpecTree == TreeInit /\ [][TreeNext]_vars

\* ------------------------------------------------------------- header spec
\* The loop while sr.remain: yield f_type(sr) of iter_files over a decoded
\* header that holds some whole records and then nothing, the front part of
\* one more record, or (FileOrPath_2947) a record whose length field is
\* below 16.  The reader is over bytes (a header LzHuf.Decode returned) or
\* over a memoryview (a header chunk that is not compressed).  completed
\* holds the entries yielded; last is [op, version, whole, kind, before,
\* err]: whole the entries of the whole records, kind what follows them,
\* before the position at which the last f_type(sr) call began.

MaxWhole == 2

\* <<name, <<size_real, offset, size_compressed, crc>>>> of the records, in
\* header order
HeaderRecords ==
    <<<<NameDir, <<PyInt(0), PyInt(0), PyInt(0), PyInt(0)>>>>,
      <<NameA, <<PyInt(3), PyInt(70), PyInt(3), PyInt(9)>>>>,
      <<NameB, <<PyInt(258), PyInt(73), PyInt(2), PyInt(0)>>>>,
      <<NameDir, <<PyInt(1), PyInt(75), PyInt(1), PyInt(1)>>>>>>

\* Record i of the header in the version's layout
HeaderRecord(version, i) == RecordOf(version, HeaderRecords[i][1], HeaderRecords[i][2])

RECURSIVE WholeRecords(_, _)
WholeRecords(version, k) ==
    IF k = 0 THEN <<>> ELSE WholeRecords(version, k - 1) \o HeaderRecord(version, k)

\* The lengths below 16 of the model
ShortLengths == {0, 1, 14, 15}

\* What follows k whole records: <<kind, bytes>>
Tails(version, k) ==
    {<<"whole", <<>>>>}
    \cup {<<"cut", SubSeq(HeaderRecord(version, k + 1), 1, n)>> :
            n \in 1..(Len(HeaderRecord(version, k + 1)) - 1)}
    \cup IF version \in {DB_VERSION_2947RU, DB_VERSION_2947WW, DB_VERSION_XDB}
         THEN {<<"short", SubSeq(Pack(PyInt(L)), 1, 2)
                          \o SubSeq(HeaderRecord(version, k + 1), 3, 14) \o rest>> :
                 L \in ShortLengths,
                 rest \in {<<>>, Pack(PyInt(70)), HeaderRecord(version, k + 1)}}
         ELSE {}

\* The attributes the constructor of the version sets from record i
WholeEntry(version, i) ==
    [name |-> HeaderRecords[i][1],
     size_real |-> HeaderRecords[i][2][1], offset |-> HeaderRecords[i][2][2],
     size_compressed |-> HeaderRecords[i][2][3],
     crc |-> IF version \in {DB_VERSION_1114, DB_VERSION_2215} THEN NoValue
             ELSE HeaderRecords[i][2][4]]

HeaderInit ==
    /\ \E version \in DbVersions, k \in 0..MaxWhole, view \in BOOLEAN :
          \E tail \in Tails(version, k) :
             /\ sr = [SequensorReader(WholeRecords(version, k) \o tail[2]) EXCEPT !.view = view]
             /\ last = [op |-> "none", version |-> version,
                        whole |-> [i \in 1..k |-> WholeEntry(version, i)],
                        kind |-> tail[1], before |-> 0, err |-> None]
    /\ completed = <<>>
    /\ skipped = FALSE
    /\ xr = <<>>
    /\ cgen = <<>>
    /\ fgen = <<>>
    /\ unscr = <<>>
    /\ fetch = <<>>
    /\ EntryIdle

\* yield f_type(sr), the constructor having returned e
Yielded(e) ==
    /\ sr' = e.sr
    /\ completed' = IF e.err = None THEN Append(completed, e.entry) ELSE completed
    /\ last' = [last EXCEPT !.op = "f_type", !.before = sr.pos, !.err = e.err]

\* One turn of while sr.remain: yield f_type(sr); an exception of the
\* constructor ends the generator.
YieldRecord ==
    /\ last.op \in {"none", "f_type"}
    /\ last.err = None
    /\ remain(sr) # 0
    /\ Yielded(FileOrPathOfVersion(last.version, sr))
    /\ UNCHANGED <<skipped, xr, cgen, fgen, unscr, fetch, fop>>

\* sr.remain is 0: the generator returns.
HeaderDone ==
    /\ last.op \in {"none", "f_type"}
    /\ last.err = None
    /\ remain(sr) = 0
    /\ last' = [last EXCEPT !.op = "done"]
    /\ UNCHANGED <<sr, completed, skipped, xr, cgen, fgen, unscr, fetch, fop>>

HeaderNext == YieldRecord \/ HeaderDone

SpecHeader == HeaderInit /\ [][HeaderNext]_vars

\* The last call failed atomically: out-of-bounds error, nothing returned,
\* position where it was.
FailedAtomically ==
    /\ last.err = "OutOfBoundException"
    /\ last.ret = <<>>
    /\ sr.pos = last.before

ReadOverruns ==
    last.op = "read" /\ last.before + calc_size(last.fmt) > Len(sr.buff)

StringOverruns ==
    last.op = "read_string" /\ \A i \in last.before..(Len(sr.buff) - 1) : sr.buff[i + 1] # 0

\* C1 as stated: a typed read of width w with p + w > n, a read of K raw bytes
\* with p + K > n and a string read with no zero byte at or after p all fail
\* with the out-of-bounds error, return nothing and leave the position at p.
C1_AsStated ==
    (\/ ReadOverruns
     \/ StringOverruns
     \/ last.op = "read_bytes" /\ last.before + last.k > Len(sr.buff))
    => FailedAtomically

\* C1 amended: the same, for a read of K >= 1 raw bytes (a read of 0 bytes
\* needs nothing and succeeds at every position, also past the end).
C1_OverrunFailsAtomically ==
    (\/ ReadOverruns
     \/ StringOverruns
     \/ last.op = "read_bytes" /\ last.k >= 1 /\ last.before + last.k > Len(sr.buff))
    => FailedAtomically

\* C1 witness: K raw bytes asked for in the middle of a buffer that holds
\* some, but fewer than K, more bytes; the call failed.
C1_Witness ==
    /\ last.op = "read_bytes"
    /\ last.before > 0
    /\ last.before < Len(sr.buff)
    /\ last.before + last.k > Len(sr.buff)
    /\ last.err = "OutOfBoundException"

\* C2: after any sequence of reads (no skip), 0 <= position <= buffer length,
\* so remain is never negative, and it is 0 once the K-omitted read has
\* exhausted the cursor.
C2_PositionWithinBuffer ==
    ~skipped =>
        /\ 0 <= sr.pos
        /\ sr.pos <= Len(sr.buff)
        /\ remain(sr) >= 0
        /\ (last.op = "read_bytes_all" /\ last.upd => remain(sr) = 0)

\* The chunk kinds of the archive format: DATA, HEADER, USERDATA.
ClaimedKinds == {PyInt(0), PyInt(1), PyInt(666)}

\* The archive layout as the format defines it, read from offset off: the
\* well-formed chunks of recognised kind up to the first that is not, and why
\* the reading stopped there ("end": the buffer ended after a chunk).
RECURSIVE Layout(_, _)
Layout(buff, off) ==
    IF off = Len(buff) THEN [chunks |-> <<>>, stop |-> "end"]
    ELSE IF off + 8 > Len(buff) THEN [chunks |-> <<>>, stop |-> "cut header"]
    ELSE LET type == Unpack(SubSeq(buff, off + 1, off + 4))
             size == Unpack(SubSeq(buff, off + 5, off + 8))
         IN  IF PyInt(type.low) \notin ClaimedKinds
             THEN [chunks |-> <<>>, stop |-> "unknown kind"]
             ELSE IF size.b31 = 1 \/ off + 8 + size.low > Len(buff)
             THEN [chunks |-> <<>>, stop |-> "overrun"]
             ELSE LET rest == Layout(buff, off + 8 + size.low)
                  IN  [chunks |-> <<[type |-> PyInt(type.low), size |-> size,
                                     parent_pos |-> off + 8,
                                     is_compressed |-> type.b31 = 1]>> \o rest.chunks,
                       stop |-> rest.stop]

Ended == cgen.pc \in {"done", "raised"}

\* C3: on a buffer of n >= 1 well-formed chunks of recognised kinds the
\* enumeration yields exactly the n chunks in buffer order (kind, declared
\* size, payload offset) and ends, without error, with the cursor at the end
\* of the buffer.
C3_YieldsEveryChunk ==
    LET L == Layout(xr.buff, 0)
    IN  (L.stop = "end" /\ Len(L.chunks) >= 1 /\ Ended)
        => /\ cgen.pc = "done"
           /\ cgen.out = L.chunks
           /\ xr.pos = Len(xr.buff)

\* C4: a type field t is rejected with WrongDbFormat exactly when t with bit
\* 31 cleared is none of DATA, HEADER, USERDATA, and an accepted chunk is
\* compressed exactly when bit 31 of t is set.
C4_AcceptsExactlyTheKinds ==
    cgen.raw # NoRaw
    => /\ (cgen.err = "WrongDbFormat") <=> (PyInt(cgen.raw.low) \notin ClaimedKinds)
       /\ cgen.pc = "yielded"
          => cgen.out[Len(cgen.out)].is_compressed = (cgen.raw.b31 = 1)

\* C5: on a buffer whose well-formed chunks are followed by a chunk declaring
\* more bytes than remain after its header, the enumeration ends with
\* DbFileOverrun, having yielded every earlier chunk and not that one.
C5_OverrunAfterEarlierChunks ==
    LET L == Layout(xr.buff, 0)
    IN  (L.stop = "overrun" /\ Ended)
        => /\ cgen.err = "DbFileOverrun"
           /\ cgen.out = L.chunks

\* The versions whose compressed header is only compressed, not scrambled.
CodecOnly == {DB_VERSION_1114, DB_VERSION_2215, DB_VERSION_2945, DB_VERSION_XDB}

\* What decode header is to return for the call u = [version, is_compressed,
\* data, ...]: the [err, ret] of the Adaptive Codec on the payload, deciphered
\* first for the two scrambled versions, or the payload itself.
HeaderOf(u) ==
    IF ~u.is_compressed THEN [err |-> None, ret |-> u.data]
    ELSE IF u.version \in CodecOnly THEN Decode(LzHuf, PyBytes(u.data))
    ELSE IF u.version = DB_VERSION_2947RU
    THEN Decode(LzHuf, PyBytes(decrypt(XRScrambler(CC_RU), u.data)))
    ELSE Decode(LzHuf, PyBytes(decrypt(XRScrambler(CC_WW), u.data)))

Dispatched(u, h) == u.err = h.err /\ u.buff = h.ret

\* C6: every decode header call on a HEADER chunk returns the Adaptive
\* Codec's output on the payload when the chunk is compressed and the version
\* is V1114, V2215, V2945 or VXDB, the Adaptive Codec's output on the
\* payload deciphered with the RU or WW profile for V2947RU or V2947WW, and
\* the payload unchanged when the chunk is not compressed.
C6_DecodeHeaderDispatch ==
    \A i \in DOMAIN unscr : Dispatched(unscr[i], HeaderOf(unscr[i]))

\* The entries of a decoded header, read in order from the reader s until it
\* is exhausted or a record cannot be read.
RECURSIVE AllEntries(_, _)
RECURSIVE EntriesAfter(_, _)
EntriesAfter(version, e) ==
    IF e.err # None THEN <<>> ELSE <<e.entry>> \o AllEntries(version, e.sr)

AllEntries(version, s) ==
    IF remain(s) = 0 THEN <<>>
    ELSE EntriesAfter(version, FileOrPathOfVersion(version, s))

\* The complete entry sequence of the session's decoded header.
CompleteSequence ==
    IF xr.header = <<>> THEN <<>>
    ELSE AllEntries(xr.version, [xr.header[1] EXCEPT !.pos = 0])

\* C7: whatever the interleaving of the steps of the enumerations running on
\* one session, an enumeration that has ended has yielded the complete entry
\* sequence of the decoded header, in order.
C7_EachEnumerationComplete ==
    \A g \in DOMAIN fgen : fgen[g].pc = "done" => fgen[g].out = CompleteSequence

\* C8: the header is decoded at most once on a session, and an enumeration
\* started after it was decoded, once ended, has yielded the same entries as
\* the first complete enumeration.
C8_DecodedOnceAndReused ==
    /\ Cardinality({i \in DOMAIN unscr : unscr[i].err = None}) <= 1
    /\ \A g \in DOMAIN fgen :
          fgen[g].branch = "cached" /\ fgen[g].pc = "done" => fgen[g].out = completed[1]

\* The range [offset, offset + size) lies wholly inside the buffer.
Inside(buff, offset, size) ==
    offset.b31 = 0 /\ size.b31 = 0 /\ offset.low + size.low <= Len(buff)

\* The fetch did what C9 asks of it on the entry e = [offset, size_compressed, ...]
LiteralOrFailure(f, buff) ==
    IF Inside(buff, f.entry.offset, f.entry.size_compressed)
    THEN /\ f.err = None
         /\ f.ret = PyBytes(SubSeq(buff, f.entry.offset.low + 1,
                                   f.entry.offset.low + f.entry.size_compressed.low))
    ELSE f.err # None

\* C9: a fetch on a file entry (offset != 0) with compressed_size = real_size,
\* of a version other than V1114, returns exactly the compressed_size bytes at
\* [offset, offset + compressed_size) of the archive buffer when that range is
\* inside the buffer, and fails when it is not.
C9_LiteralPayloadOrFailure ==
    \A i \in DOMAIN fetch :
        (/\ xr.version # DB_VERSION_1114
         /\ is_file(fetch[i].entry)
         /\ fetch[i].entry.size_compressed = fetch[i].entry.size_real)
        => LiteralOrFailure(fetch[i], xr.buff)

\* The compressed_size bytes at the cursor position the fetch f started from.
RawOf(f, buff) == SubSeq(buff, f.before + 1, f.before + f.entry.size_compressed.low)

\* The payload C10 asks for from the raw bytes: themselves when real_size is
\* not 0, the Adaptive Codec's [err, ret] on them when it is.
PayloadOf(real_size, raw) ==
    IF real_size # PyInt(0) THEN [err |-> None, ret |-> raw]
    ELSE Decode(LzHuf, PyBytes(raw))

FetchedPayload(f, p) ==
    /\ f.err = p.err
    /\ p.err = None /\ p.ret # <<>> => f.ret = PyBytes(p.ret)

\* C10: a fetch on a V1114 file entry whose compressed_size bytes are there
\* at the header cursor advances the cursor by compressed_size and returns
\* those bytes unchanged when real_size != 0, their Adaptive Codec
\* decompression when real_size = 0.
C10_FetchFromLiveCursor ==
    \A i \in DOMAIN fetch :
        (/\ is_file(fetch[i].entry)
         /\ Inside(sr.buff, PyInt(fetch[i].before), fetch[i].entry.size_compressed))
        => /\ fetch[i].after = fetch[i].before + fetch[i].entry.size_compressed.low
           /\ FetchedPayload(fetch[i],
                             PayloadOf(fetch[i].entry.size_real, RawOf(fetch[i], sr.buff)))

\* The position of the first zero byte of buff at or after position p.
Terminator(buff, p) == CHOOSE e \in p..Len(buff) : buff[e + 1] = 0 /\ \A i \in p..(e - 1) : buff[i + 1] # 0

\* The little-endian u32 at position p of buff.
U32At(buff, p) ==
    [b31 |-> buff[p + 4] \div 128,
     low |-> buff[p + 1] + 256 * buff[p + 2] + 65536 * buff[p + 3]
               + 16777216 * (buff[p + 4] % 128)]

\* The record at position p of the decoded header, by the layout table: a
\* terminated name followed by the u32 fields in the version's order.
Terminated(version, buff, p, e) ==
    CASE version = DB_VERSION_1114 ->
           [name |-> SubSeq(buff, p + 1, e), size_real |-> U32At(buff, e + 1),
            offset |-> U32At(buff, e + 5), size_compressed |-> U32At(buff, e + 9),
            crc |-> NoValue]
      [] version = DB_VERSION_2215 ->
           [name |-> SubSeq(buff, p + 1, e), offset |-> U32At(buff, e + 1),
            size_real |-> U32At(buff, e + 5), size_compressed |-> U32At(buff, e + 9),
            crc |-> NoValue]
      [] OTHER ->
           [name |-> SubSeq(buff, p + 1, e), crc |-> U32At(buff, e + 1),
            offset |-> U32At(buff, e + 5), size_real |-> U32At(buff, e + 9),
            size_compressed |-> U32At(buff, e + 13)]

\* The same for the layout led by total_record_len:u16, n the name's length.
Counted(buff, p, n) ==
    [size_real |-> U32At(buff, p + 2), size_compressed |-> U32At(buff, p + 6),
     crc |-> U32At(buff, p + 10), name |-> SubSeq(buff, p + 15, p + 14 + n),
     offset |-> U32At(buff, p + 14 + n)]

LayoutRecord(version, buff, p) ==
    IF version \in {DB_VERSION_1114, DB_VERSION_2215, DB_VERSION_2945}
    THEN Terminated(version, buff, p, Terminator(buff, p))
    ELSE Counted(buff, p, buff[p + 1] + 256 * buff[p + 2] - 16)

\* C11: every record read from a decoded header is the record the layout
\* table of the archive's version gives at the cursor position: the fields in
\* the version's order, the name null-terminated for V1114, V2215 and V2945
\* and of total_record_len - 16 bytes for the others, integers little-endian
\* u32, no crc for V1114 and V2215.
C11_RecordLayout ==
    last.op = "f_type"
    => /\ last.err = None
       /\ fop = <<LayoutRecord(last.version, sr.buff, last.before)>>

\* The places of the chunks of kind K in the layout's chunk sequence.
PlacesOf(chunks, kind) == {i \in DOMAIN chunks : chunks[i].type = kind}

First(S) == CHOOSE i \in S : \A j \in S : i <= j

\* What find chunk by kind is to return on the layout L.
FirstOfKind(L, kind) ==
    /\ PlacesOf(L.chunks, kind) # {}
       => /\ last.err = None
          /\ last.found
          /\ last.chunk = L.chunks[First(PlacesOf(L.chunks, kind))]
    /\ PlacesOf(L.chunks, kind) = {} /\ L.stop = "end"
       => last.err = None /\ ~last.found

\* C12: find chunk by kind K returns the first chunk in buffer order whose
\* kind is K, wherever in the buffer it lies, and returns nothing, without
\* error, when the well-formed buffer holds no chunk of kind K.
C12_FindsFirstOfKind ==
    last.op = "find_chunk" => FirstOfKind(Layout(xr.buff, 0), last.type)

\* The records of a buffer that is a concatenation of records
\* u32 type | u32 size | size payload bytes, read from offset off.
RECURSIVE Records(_, _)
Records(buff, off) ==
    IF off >= Len(buff) THEN <<>>
    ELSE LET size == Unpack(SubSeq(buff, off + 5, off + 8))
         IN  <<[type |-> Unpack(SubSeq(buff, off + 1, off + 4)), size |-> size,
                payload |-> SubSeq(buff, off + 9, off + 8 + size.low)]>>
             \o Records(buff, off + 8 + size.low)

IsPrefix(p, s) == Len(p) <= Len(s) /\ p = SubSeq(s, 1, Len(p))

\* C13: over a buffer that is a concatenation of n records, an enumeration
\* yields the records' triples (type, size, payload) in buffer order and
\* nothing else, never fails, ends exactly when n triples have been yielded
\* with the cursor at the end of the buffer, and every enumeration started
\* again has yielded the same n triples when it ends.
C13_YieldsTheRecords ==
    sr.buff \in WellFormedBuffers =>
        /\ cgen.err = None
        /\ IsPrefix(cgen.out, Records(sr.buff, 0))
        /\ cgen.pc = "done" => cgen.out = Records(sr.buff, 0) /\ sr.pos = Len(sr.buff)
        /\ \A i \in DOMAIN completed :
              completed[i] = [out |-> Records(sr.buff, 0), err |-> None]

C13_Witness ==
    /\ sr.buff \in WellFormedBuffers
    /\ Len(completed) = 2
    /\ Len(completed[2].out) = MaxChunks
    /\ completed[2].out[1].type = [b31 |-> 1, low |-> 2147483647]
    /\ completed[2].out[2].payload = <<PayloadByte>>

\* The suffix patterns of the three inferable versions.
AlNum == {"x", "d", "b", "r", "p", "3"}

InferredFrom(ext) ==
    IF ext \in {<<".", "x", "d", "b", c>> : c \in AlNum} THEN DB_VERSION_XDB
    ELSE IF ext = <<".", "x", "r", "p">> THEN DB_VERSION_1114
    ELSE IF ext \in {<<".", "x", "p", c>> : c \in AlNum} THEN DB_VERSION_2215
    ELSE DB_VERSION_AUTO

\* The last path component's extension: from its last dot on, when that dot
\* is neither its first nor its last character.
ExtOf(name) ==
    IF \E i \in 2..(Len(name) - 1) : name[i] = "."
    THEN LET i == CHOOSE i \in 2..(Len(name) - 1) :
                     /\ name[i] = "."
                     /\ \A j \in (i + 1)..Len(name) : name[j] # "."
         IN  IF name[Len(name)] = "." THEN <<>> ELSE SubSeq(name, i, Len(name))
    ELSE <<>>

\* C14: with no explicit version, the version returned is the one the
\* suffix pattern gives (.xdb + alphanumeric: VXDB, .xrp: V1114, .xp +
\* alphanumeric: V2215), and a suffix of no pattern gives no version.
C14_InferredFromSuffix ==
    (last.op = "get_version_by_file_name" /\ last.version_name \in {<<>>, NoStr}) =>
        LET v == InferredFrom(ExtOf(last.file_name))
        IN  IF v = DB_VERSION_AUTO THEN last.err # None /\ last.ret = None
            ELSE last.err = None /\ last.ret = v

C14_Witness ==
    /\ last.op = "get_version_by_file_name"
    /\ last.version_name = NoStr
    /\ last.file_name = <<"g", ".", "x", "p", "3">>
    /\ last.ret = DB_VERSION_2215

\* C15: version resolution returns one of the six one-bit versions or
\* fails with UnspecifiedDbFormat, and fails when no version is named and
\* the suffix matches no pattern.
C15_OneVersionOrVersionError ==
    last.op = "get_version_by_file_name" =>
        /\ \/ last.err = None /\ last.ret \in DbVersions
           \/ last.err = "UnspecifiedDbFormat" /\ last.ret = None
        /\ (last.version_name \in {<<>>, NoStr}
              /\ InferredFrom(ExtOf(last.file_name)) = DB_VERSION_AUTO)
           => last.err = "UnspecifiedDbFormat"

\* box holds every value of 0..255 exactly once.
IsPermutation(box) ==
    /\ DOMAIN box = 0..(SBOX_SIZE - 1)
    /\ {box[i] : i \in DOMAIN box} = 0..(SBOX_SIZE - 1)

\* C17: the encryption box is a permutation of 0..255 before and after every
\* turn of the scramble loop, every turn exchanges two distinct indices, the
\* loop makes size_mult * 256 turns, and the decryption box, once created,
\* is the inverse of the encryption box; the boxes of the constructed
\* scramblers are the ones so built.
C17_PermutationAndInverse ==
    /\ IsPermutation(xr.m_enc_sbox)
    /\ xr.i > 0 => xr.a # xr.b
    /\ xr.pc = "built" =>
          /\ xr.i = SIZE_MULT(xr.config) * SBOX_SIZE
          /\ IsPermutation(xr.m_dec_sbox)
          /\ \A i \in 0..(SBOX_SIZE - 1) :
                /\ xr.m_dec_sbox[xr.m_enc_sbox[i]] = i
                /\ xr.m_enc_sbox[xr.m_dec_sbox[i]] = i
          /\ XRScrambler(xr.config).m_enc_sbox = xr.m_enc_sbox
          /\ XRScrambler(xr.config).m_dec_sbox = xr.m_dec_sbox

C17_Witness ==
    /\ xr.pc = "built"
    /\ xr.config = CC_RU
    /\ xr.i = SIZE_MULT_RU * SBOX_SIZE
    /\ xr.m_enc_sbox # Sequential

\* C16: decrypting what encrypt returned for x, with the same profile,
\* gives x back.
C16_RoundTrip == last.plain # <<>> => last.ret = last.plain[1]

C16_Witness ==
    /\ last.plain = <<<<PayloadByte, 255>>>>
    /\ last.ret = <<PayloadByte, 255>>
    /\ last.src # last.ret
    /\ xr.config = CC_WW

\* The first keystream byte of a profile: the top byte of
\* (1 + seed * SEED_MULT) mod 2^32 for the profile's seed.
FirstKey(self) == TopByteMasked(NextSeedMasked(PyInt(self.m_seed)))

StartsFromSeed(c, self) ==
    c.src # <<>> =>
        c.ret[1] = IF c.op = "encrypt" THEN BitXor(self.m_enc_sbox[c.src[1]], FirstKey(self))
                   ELSE self.m_dec_sbox[BitXor(c.src[1], FirstKey(self))]

\* C18: the scrambler is after every call the object its profile
\* constructs (seed and boxes unchanged); every call returns as many bytes
\* as it was given, starting from the profile's seed; and two calls of the
\* same operation on the same input, whatever was called between them,
\* return the same bytes.
C18_PureCalls ==
    /\ xr.self = XRScrambler(xr.config)
    /\ \A i \in DOMAIN completed :
          /\ Len(completed[i].ret) = Len(completed[i].src)
          /\ StartsFromSeed(completed[i], XRScrambler(xr.config))
          /\ \A j \in DOMAIN completed :
                (completed[i].op = completed[j].op /\ completed[i].src = completed[j].src)
                   => completed[i].ret = completed[j].ret

C18_Witness ==
    /\ Len(completed) = MaxCalls
    /\ MaxCalls >= 3
    /\ completed[1] = completed[MaxCalls]
    /\ completed[2].op # completed[1].op
    /\ completed[2].src # <<>>
    /\ completed[1].src # <<>>

\* The length a code declares: its first four bytes, little-endian.
Declared(code) == code[1] + 256 * code[2] + 65536 * code[3] + 16777216 * code[4]

\* C19: Decode of a code of four bytes or more returns, without failing,
\* exactly as many bytes as the code's first four bytes declare, whether or
\* not the stream ran out and whether or not the last match wrote past the
\* declared length.
C19_ReturnsDeclaredLength ==
    (last.op = "Decode" /\ Len(last.code) >= 4) =>
        /\ last.err = None
        /\ Len(last.ret) = Declared(last.code)

\* The stream is used up and the last match has written past the declared length.
C19_Witness ==
    /\ last.op = "Decode"
    /\ last.code = Pack(PyInt(3)) \o <<24, 150>>
    /\ last.ret = <<140, 140, 140>>
    /\ xr.m_src_pos = xr.m_src_limit
    /\ xr.m_dest_pos > xr.textsize

\* C20: Decode of a code of fewer than four bytes raises WrongDataFormat
\* and gives no output; the decoder is left as it was.
C20_ShortCodeRejected ==
    (last.op = "Decode" /\ Len(last.code) < 4) =>
        /\ last.err = "WrongDataFormat"
        /\ last.ret = <<>>
        /\ xr = LzHuf

C20_Witness ==
    /\ last.op = "Decode"
    /\ last.code = <<1, 0, 0>>
    /\ last.err = "WrongDataFormat"

\* What Decode returns for each code on a decoder just constructed.
FreshDecode == [code \in ReuseCodes |-> Decode(LzHuf, PyBytes(code)).ret]

\* C21: a Decode call returns what a fresh decoder returns for the same
\* code, whatever the object has decoded before.
C21_DependsOnInputOnly ==
    last.op = "Decode" => last.err = None /\ last.ret = FreshDecode[last.code]

\* The codes whose first symbol is a match: every byte it copies comes from
\* a ring position this decode has not written.
FirstMatchCodes == {code \in ReuseCodes : Len(code) > 4 /\ code[5] = 192}

\* C22: the ring a decoder has when Decode enters its main loop holds the
\* space character at all 4096 positions, and a match that reads only
\* positions the decode has not written returns spaces.
C22_RingPrefilled ==
    /\ \A i \in 0..(N - 1) : DecodeSpaces(xr).text_buf[i] = 32
    /\ (last.op = "Decode" /\ last.code \in FirstMatchCodes) =>
          \A k \in DOMAIN last.ret : last.ret[k] = 32

\* The match length of the last turn's symbol.
MatchLen == last.c - 255 + 2

\* The k-th byte (from 0) the last turn wrote to the output.
Out(k) == xr.m_dest[last.posb + k + 1]

\* C23: a match of position p and length L = c - 255 + 2 writes L bytes to
\* the output and to the ring from the write cursor on; byte k is the ring
\* byte at (cursor - p - 1 + k) mod 4096 as it was before the match for
\* k <= p, and byte k - (p + 1) of the same match for k > p.
C23_OverlappingCopy ==
    last.op = "match" =>
        /\ xr.m_dest_pos = last.posb + MatchLen
        /\ last.count = xr.m_dest_pos
        /\ last.r = (last.rb + MatchLen) % 4096
        /\ \A k \in 0..(MatchLen - 1) :
              /\ Out(k) = IF k > last.p THEN Out(k - (last.p + 1))
                          ELSE last.ring[(last.rb - last.p - 1 + k) % 4096]
              /\ xr.text_buf[(last.rb + k) % 4096] = Out(k)

\* Two different literals, then a match of position 1 and length 6.
C23_Witness ==
    /\ last.op = "match"
    /\ last.p = 1
    /\ MatchLen = 6
    /\ SubSeq(xr.m_dest, 1, 8) = <<140, 116, 140, 116, 140, 116, 140, 116>>

\* C27: a turn leaves m_dest as long as m_dest_limit says, with the write
\* position inside it, the bytes written before the turn unchanged, and
\* every byte the turn emitted stored at its index; the limit only grows.
C27_GrownBeforeWrite ==
    last.op \in {"literal", "match"} =>
        /\ Len(xr.m_dest) = xr.m_dest_limit
        /\ xr.m_dest_pos <= xr.m_dest_limit
        /\ xr.m_dest_limit >= last.limitb
        /\ SubSeq(xr.m_dest, 1, last.posb) = SubSeq(last.dest, 1, last.posb)
        /\ \A k \in 0..(xr.m_dest_pos - last.posb - 1) :
              Out(k) = xr.text_buf[(last.rb + k) % 4096]

\* A match of 55 bytes at a declared length of 1 has grown m_dest six times.
C27_Witness ==
    /\ last.op = "match"
    /\ xr.textsize = 1
    /\ last.limitb = 1
    /\ xr.m_dest_pos = 55
    /\ xr.m_dest_limit = 64

\* Bit n (from 0) of the stream of the code, 0 past its end.
StreamBit(code, n) ==
    IF 5 + (n \div 8) > Len(code) THEN 0
    ELSE (code[5 + (n \div 8)] \div Pow2(7 - (n % 8))) % 2

\* The k bits of the stream from bit n on, as a number.
RECURSIVE StreamBits(_, _, _)
StreamBits(code, n, k) ==
    IF k = 0 THEN 0 ELSE 2 * StreamBits(code, n, k - 1) + StreamBit(code, n + k - 1)

\* C28: the position of a match is in 0..4095; its upper six bits are the
\* table entry for the byte b read first, its lower six bits those of b
\* shifted left by the d_len[b] - 2 bits read after it, and these are all
\* the bits DecodePosition reads.  The offsets in the stream are known
\* from m_src_pos and getlen as long as getc has not run past the end of
\* the stream, which is what last.full says.
C28_PositionInRange ==
    last.op = "match" =>
        /\ last.p \in 0..4095
        /\ last.p \div 64 = d_code[last.b + 1]
        /\ last.full =>
              /\ last.b = StreamBits(last.code, last.o, 8)
              /\ last.p % 64 = (last.b * Pow2(d_len[last.b + 1] - 2)
                                + StreamBits(last.code, last.o + 8, d_len[last.b + 1] - 2)) % 64
              /\ BitsRead(xr) = last.o + 8 + d_len[last.b + 1] - 2

C28_Witness ==
    /\ last.op = "match"
    /\ last.b = 255
    /\ last.p = 4095
    /\ last.full

\* C24: after StartHuff and after every update the frequencies do not
\* decrease with the node index up to the root, and the sentinel above the
\* root is larger than every node's frequency.
C24_FrequenciesSorted ==
    last.op \in {"start", "update", "DecodeChar"} =>
        /\ \A i \in 0..(R - 1) : xr.freq[i] <= xr.freq[i + 1]
        /\ xr.freq[R] < xr.freq[T]

\* An update that ran reconst has completed.
C24_Witness ==
    /\ last.op = "update"
    /\ last.rebuilt
    /\ xr.freq[0] < xr.freq[R - 1]

\* The node that is the leaf of symbol s in the tables t.
LeafOf(t, s) == t.prnt[s + T]

\* C25: the root frequency is never above MAX_FREQ.  An update that starts
\* with the root at MAX_FREQ runs reconst first: every leaf frequency f
\* becomes (f + 1) div 2, the leaves keep their order, every internal node
\* is the sum of its two children, and the update's increments are made on
\* these tables.
C25_RebuiltAtMaxFreq ==
    /\ xr.freq[R] <= MAX_FREQ
    /\ last.n <= MAX_FREQ - N_CHAR => ~last.rebuilt /\ xr.freq[R] = N_CHAR + last.n
    /\ last.n = MAX_FREQ - N_CHAR + 1 => last.rebuilt
    /\ last.rebuilt =>
          /\ last.before.freq[R] = MAX_FREQ
          /\ \A s \in 0..(N_CHAR - 1) :
                /\ last.mid.son[LeafOf(last.mid, s)] = s + T
                /\ last.mid.freq[LeafOf(last.mid, s)]
                       = (last.before.freq[LeafOf(last.before, s)] + 1) \div 2
                /\ \A t \in 0..(N_CHAR - 1) :
                      LeafOf(last.before, s) < LeafOf(last.before, t)
                          => LeafOf(last.mid, s) < LeafOf(last.mid, t)
          /\ \A i \in 0..R :
                last.mid.son[i] < T =>
                    last.mid.freq[i] = last.mid.freq[last.mid.son[i]]
                                       + last.mid.freq[last.mid.son[i] + 1]
          /\ xr.freq[R] = last.mid.freq[R] + 1
          /\ xr.freq[LeafOf(xr, last.c)] = last.mid.freq[LeafOf(last.mid, last.c)] + 1

\* The update of a symbol of frequency above 16000 ran reconst.
C25_Witness ==
    /\ last.rebuilt
    /\ last.before.freq[R] = 16384
    /\ last.before.freq[LeafOf(last.before, last.c)] > 16000
    /\ xr.freq[R] < 16384

\* C29: after StartHuff and after every update son and prnt describe one
\* binary tree: an internal node's two children are adjacent, below it and
\* have it as parent; a leaf holds a symbol whose parent entry is the
\* leaf; each of the N_CHAR symbols is the leaf of the node its parent
\* entry names (and of no other, a leaf being the parent entry of its
\* symbol); and DecodeChar returns a symbol in 0 .. N_CHAR - 1.
C29_OneTree ==
    last.op \in {"start", "update", "DecodeChar"} =>
        /\ \A i \in 0..R :
              LET k == xr.son[i]
              IN  IF k < T
                  THEN k >= 0 /\ k + 1 < i /\ xr.prnt[k] = i /\ xr.prnt[k + 1] = i
                  ELSE k < T + N_CHAR /\ xr.prnt[k] = i
        /\ \A s \in 0..(N_CHAR - 1) : xr.son[xr.prnt[s + T]] = s + T
        /\ xr.prnt[R] = 0
        /\ last.op = "DecodeChar" => last.c \in 0..(N_CHAR - 1)

\* A DecodeChar whose update ran reconst has completed.
C29_Witness ==
    /\ last.op = "DecodeChar"
    /\ last.rebuilt
    /\ last.c \in 0..(N_CHAR - 1)

\* The enumeration of the header is over: it returned or raised.
HeaderOver == last.op = "done" \/ last.err # None

\* Where the whole records of the header end.
WholeEnd == Len(WholeRecords(last.version, Len(last.whole)))

\* The entries yielded are the whole records' entries in order, and a
\* header with a cut or short record after them ends with
\* OutOfBoundException raised by the constructor call begun at that record.
FailsAtPartialRecord ==
    /\ IsPrefix(completed, last.whole)
    /\ (HeaderOver /\ last.kind \in {"cut", "short"}) =>
          /\ last.err = "OutOfBoundException"
          /\ completed = last.whole
          /\ last.before = WholeEnd

\* C26: over a decoded header that ends in the middle of a record, or has a
\* FileOrPath_2947 record with a length field below 16, iter_files yields
\* the entry of every whole record before it and then fails with
\* OutOfBoundException at that record; no entry is made of partial data.
C26_FailsAtPartialRecord == FailsAtPartialRecord

\* The same over the headers that are bytes objects.
PartialRecordOverBytes == ~sr.view => FailsAtPartialRecord

\* The length field of the FileOrPath_2947 record at position p of the header.
LengthAt(p) == sr.buff[p + 1] + 256 * sr.buff[p + 2]

\* The last f_type(sr) call was on a FileOrPath_2947 record with a length
\* field of 16 or more that the header holds whole.
On2947Record ==
    /\ last.op = "f_type"
    /\ last.version \in {DB_VERSION_2947RU, DB_VERSION_2947WW, DB_VERSION_XDB}
    /\ last.before + 2 <= Len(sr.buff)
    /\ LengthAt(last.before) >= 16
    /\ last.before + LengthAt(last.before) + 2 <= Len(sr.buff)

ConsumesLengthPlusTwo ==
    On2947Record => last.err = None /\ sr.pos = last.before + LengthAt(last.before) + 2

\* C30: the constructor of a V2947RU, V2947WW or VXDB record with length
\* field L >= 16 moves the reader on by exactly L + 2 bytes: 2 of the length
\* field, 12 of size_real, size_compressed and crc, L - 16 of the name and
\* 4 of the offset.
C30_ConsumesLengthPlusTwo == ConsumesLengthPlusTwo

\* The same over the headers that are bytes objects.
LengthPlusTwoOverBytes == ~sr.view => ConsumesLengthPlusTwo

\* A second record was decoded from where the first one ended.
BackToBack ==
    /\ On2947Record
    /\ ~sr.view
    /\ last.before = 21
    /\ sr.pos = 40
    /\ Len(completed) = 2

====
